---- MODULE Spec2Model ----
(***************************************************************************)
(* Model of the tian_free Home Assistant integration                        *)
(* (custom_components/tian_free/sensor.py): the process-wide content cache, *)
(* the per-content-type sensors with their update routine, the retry        *)
(* call_later chain and the daily 00:01 call_later chain.                   *)
(*                                                                         *)
(* Time is the epoch second returned by datetime.now(); local time is taken *)
(* to coincide with epoch time (second 0 is a local midnight).  One event   *)
(* loop runs everything: a coroutine is suspended only at the network call  *)
(* inside _fetch_api_data, so an update is two atomic steps, the part       *)
(* before `await fetch_func()` and the part after it.                       *)
(***************************************************************************)
EXTENDS Integers, Sequences, FiniteSets, Bags, TLC

VARIABLES
    now,               \* datetime.now() as epoch seconds
    sensors,           \* the per-type entities created by async_setup_entry
    lifecycle,         \* per entity: "created" -> "setup" -> "updated" -> "added"
    _data_cache,       \* module global _data_cache: key -> payload
    _cache_timestamp,  \* module global _cache_timestamp: key -> epoch seconds
    _state,            \* per entity: self._state
    _available,        \* per entity: self._available
    _retry_count,      \* per entity: self._retry_count
    timers,            \* bag of pending hass.loop.call_later registrations
    tasks,             \* bag of async_update coroutines suspended in the fetch
    ev,                \* observation: what the last step did
    scn,               \* observation: the log of updates of a scenario run
    _enabled_apis,     \* config_entry.data[CONF_ENABLED_APIS], a list
    _time_slots,       \* time-slot entity: self._time_slots, in insertion order
    _last_time_slot,   \* time-slot entity: self._last_time_slot
    _last_update_time, \* time-slot entity: self._last_update_time
    _attributes,       \* time-slot / scrolling entity: self._attributes
    _content_types,    \* scrolling entity: self._content_types
    _current_index,    \* scrolling entity: self._current_index
    _scroll_interval,  \* scrolling entity: self._scroll_interval (minutes)
    _unsub_timer       \* scrolling entity: self._unsub_timer

\* the state of the two aggregate entities (time-slot and scrolling content)
aggVars == <<_enabled_apis, _time_slots, _last_time_slot, _last_update_time,
             _attributes, _content_types, _current_index, _scroll_interval,
             _unsub_timer>>

vars == <<now, sensors, lifecycle, _data_cache, _cache_timestamp, _state,
          _available, _retry_count, timers, tasks, ev, scn, _enabled_apis,
          _time_slots, _last_time_slot, _last_update_time, _attributes,
          _content_types, _current_index, _scroll_interval, _unsub_timer>>

----------------------------------------------------------------------------
(* Program constants *)

CACHE_TIMEOUT == 43200

_max_retries == 2

RETRY_DELAY == 1800

FETCH_TIMEOUT == 15

DAY == 86400

SCAN_INTERVAL == 86400

DAILY_SECOND == 60

HTTP_OK == 200

CODE_OK == 200

CODE_RATE_LIMITED == 130

CODE_BAD_KEY == 100

(* Bounds of the model *)

\* the run covers the days 0 .. MaxDays
MaxDays == 1

\* coroutines suspended in a fetch at the same time
MaxTasks == 2

\* seconds a fetch may take in the model (at most FETCH_TIMEOUT)
MaxLatency == 1

\* updates logged in a scenario run
MaxCalls == 3

MaxTime == (MaxDays + 1) * DAY

\* instants at which the integration may be set up:
\* 00:00:30, 12:01:00, 12:01:01
StartTimes == {30, 43260, 43261}

----------------------------------------------------------------------------
(* Content types, responses, payloads *)

ContentTypes ==
    {"joke", "morning", "evening", "poetry", "songci",
     "yuanqu", "history", "sentence", "couplet", "maxim"}

\* Python's None
None == [isNone |-> TRUE]

\* shapes of the `result` member of a response body:
\*   "dict"     - an object whose members have the expected types
\*   "dict_bad" - an object whose expected member has another type
\*                (a list of numbers for `list`, a number for `content`)
\*   "list"     - a non-empty list of objects
\*   "null"     - null
ResultShapes == {"dict", "dict_bad", "list", "null"}

\* What the network can answer to session.get(url) / response.json():
\*   exc    - "none", or the exception raised inside the try block
\*   status - response.status
\*   code   - the body's application code
\*   result - the shape of the body's result
Responses ==
    {[exc |-> "none", status |-> HTTP_OK, code |-> CODE_OK, result |-> r] :
        r \in ResultShapes}
    \cup
    {[exc |-> "none", status |-> HTTP_OK, code |-> c, result |-> "null"] :
        c \in {CODE_RATE_LIMITED, CODE_BAD_KEY, 250}}
    \cup
    {[exc |-> "none", status |-> 500, code |-> 0, result |-> "null"]}
    \cup
    {[exc |-> e, status |-> 0, code |-> 0, result |-> "null"] :
        e \in {"TimeoutError", "ClientError"}}

Body(resp) == [code |-> resp.code, result |-> resp.result]

\* _fetch_api_data without the `return None` of the code-130 branch and
\* with the body returned at the end of the try block
FetchApiDataReturningErrorBody(resp) ==
    IF resp.exc # "none" THEN None
    ELSE IF resp.status = HTTP_OK THEN Body(resp) ELSE None

\* BaseTianSensor._fetch_api_data: the value returned for a response
_fetch_api_data(resp) ==
    IF resp.exc = "TimeoutError" THEN None
    ELSE IF resp.exc # "none" THEN None
    ELSE IF resp.status = HTTP_OK
         THEN IF resp.code = CODE_OK THEN Body(resp)
              ELSE IF resp.code = CODE_RATE_LIMITED THEN None
              ELSE IF resp.code = CODE_BAD_KEY THEN None
              ELSE None
         ELSE None

\* Python truthiness of the value returned by fetch_func
Truthy(data) == data # None

----------------------------------------------------------------------------
(* Clock helpers *)

\* _get_current_date: the calendar day of an instant
_get_current_date(t) == t \div DAY

SecondOfDay(t) == t % DAY

\* the delay computed by _schedule_daily_update at instant t:
\* now.replace(hour=0, minute=1, second=0) + timedelta(days=1) - now
DailyDelay(t) == (t - SecondOfDay(t)) + DAILY_SECOND + DAY - t

----------------------------------------------------------------------------
(* Entity state *)

StateWaiting == [kind |-> "waiting", day |-> 0 - 1]

StateDate(t) == [kind |-> "date", day |-> _get_current_date(t)]

StateApiFailed == [kind |-> "api_failed", day |-> 0 - 1]

StateUpdateFailed == [kind |-> "update_failed", day |-> 0 - 1]

BagAdd(B, e) == B (+) SetToBag({e})

BagRemove(B, e) == B (-) SetToBag({e})

----------------------------------------------------------------------------
(* The shared cache *)

EmptyDict == [k \in {} |-> None]

DictSet(d, key, v) ==
    [k \in (DOMAIN d) \cup {key} |-> IF k = key THEN v ELSE d[k]]

\* the cache key an entity passes to _fetch_cached_data ("joke", "morning", ...)
CacheKey(u) == u

\* the freshness test with <= for <
CacheFreshInclusive(key, current_time) ==
    /\ key \in DOMAIN _data_cache
    /\ key \in DOMAIN _cache_timestamp
    /\ current_time - _cache_timestamp[key] <= CACHE_TIMEOUT

\* _fetch_cached_data, the test that answers from the cache
CacheFresh(key, current_time) ==
    /\ key \in DOMAIN _data_cache
    /\ key \in DOMAIN _cache_timestamp
    /\ current_time - _cache_timestamp[key] < CACHE_TIMEOUT

\* the store made whatever fetch_func returned
StorableAlways(data) == TRUE

\* _fetch_cached_data, the test that stores what fetch_func returned
Storable(data) == Truthy(data) /\ data.code = CODE_OK

\* the payload of a key stored only when the key holds none
StoreDataKeepExisting(key, data) ==
    IF key \in DOMAIN _data_cache THEN _data_cache
    ELSE DictSet(_data_cache, key, data)

\* _fetch_cached_data, the two assignments that store an entry
StoreData(key, data) == DictSet(_data_cache, key, data)

\* the store without its second assignment
StoreTimestampSkipped(key, current_time) == _cache_timestamp

StoreTimestamp(key, current_time) == DictSet(_cache_timestamp, key, current_time)

----------------------------------------------------------------------------
(* The per-type update routines, from the data on *)

\* the entities whose async_update goes through _extract_result
ExtractResultTypes == {"history", "sentence", "couplet", "maxim"}

\* whether the extraction of async_update raises on a payload:
\*   joke, poetry, yuanqu: data.get("result", {}).get("list", []) needs an
\*     object, and list[0].get(...) needs an object as first element;
\*   morning, evening: data.get("result", {}).get("content", "") needs an
\*     object, and `"早安" not in content` a string;
\*   songci: data.get("result", {}).get(...) needs an object;
\*   the others: _extract_result takes an object, the first element of a
\*     list, or {}.
PresentationRaises(u, data) ==
    IF u \in ExtractResultTypes THEN FALSE
    ELSE IF u = "songci" THEN data.result \in {"list", "null"}
    ELSE data.result # "dict"

\* the retry branch with <= for <
RetryingUpdateOneMore(u, data) ==
    IF Truthy(data)
    THEN IF PresentationRaises(u, data)
         THEN [st |-> StateUpdateFailed, av |-> FALSE,
               rc |-> _retry_count[u], retry |-> FALSE]
         ELSE [st |-> StateDate(now), av |-> TRUE, rc |-> 0, retry |-> FALSE]
    ELSE IF _retry_count[u] <= _max_retries
         THEN [st |-> _state[u], av |-> _available[u],
               rc |-> _retry_count[u] + 1, retry |-> TRUE]
         ELSE [st |-> StateApiFailed, av |-> FALSE,
               rc |-> _retry_count[u], retry |-> FALSE]

\* the success branch without `self._retry_count = 0`
RetryingUpdateNoReset(u, data) ==
    IF Truthy(data)
    THEN IF PresentationRaises(u, data)
         THEN [st |-> StateUpdateFailed, av |-> FALSE,
               rc |-> _retry_count[u], retry |-> FALSE]
         ELSE [st |-> StateDate(now), av |-> TRUE,
               rc |-> _retry_count[u], retry |-> FALSE]
    ELSE IF _retry_count[u] < _max_retries
         THEN [st |-> _state[u], av |-> _available[u],
               rc |-> _retry_count[u] + 1, retry |-> TRUE]
         ELSE [st |-> StateApiFailed, av |-> FALSE,
               rc |-> _retry_count[u], retry |-> FALSE]

\* the retry branch marking the entity unavailable
RetryingUpdateUnavailable(u, data) ==
    IF Truthy(data)
    THEN IF PresentationRaises(u, data)
         THEN [st |-> StateUpdateFailed, av |-> FALSE,
               rc |-> _retry_count[u], retry |-> FALSE]
         ELSE [st |-> StateDate(now), av |-> TRUE, rc |-> 0, retry |-> FALSE]
    ELSE IF _retry_count[u] < _max_retries
         THEN [st |-> _state[u], av |-> FALSE,
               rc |-> _retry_count[u] + 1, retry |-> TRUE]
         ELSE [st |-> StateApiFailed, av |-> FALSE,
               rc |-> _retry_count[u], retry |-> FALSE]

\* TianJokeSensor.async_update and TianMorningSensor.async_update
RetryingUpdate(u, data) ==
    IF Truthy(data)
    THEN IF PresentationRaises(u, data)
         THEN [st |-> StateUpdateFailed, av |-> FALSE,
               rc |-> _retry_count[u], retry |-> FALSE]
         ELSE [st |-> StateDate(now), av |-> TRUE, rc |-> 0, retry |-> FALSE]
    ELSE IF _retry_count[u] < _max_retries
         THEN [st |-> _state[u], av |-> _available[u],
               rc |-> _retry_count[u] + 1, retry |-> TRUE]
         ELSE [st |-> StateApiFailed, av |-> FALSE,
               rc |-> _retry_count[u], retry |-> FALSE]

\* the except clause without `self._available = False`
SimpleUpdateStayingAvailable(u, data) ==
    IF Truthy(data) /\ ~PresentationRaises(u, data)
    THEN [st |-> StateDate(now), av |-> TRUE,
          rc |-> _retry_count[u], retry |-> FALSE]
    ELSE [st |-> StateDate(now), av |-> _available[u],
          rc |-> _retry_count[u], retry |-> FALSE]

\* TianEveningSensor.async_update and the seven routines of the same form
SimpleUpdate(u, data) ==
    IF Truthy(data) /\ ~PresentationRaises(u, data)
    THEN [st |-> StateDate(now), av |-> TRUE,
          rc |-> _retry_count[u], retry |-> FALSE]
    ELSE [st |-> StateDate(now), av |-> FALSE,
          rc |-> _retry_count[u], retry |-> FALSE]

\* the retry branch in the two mandatory types' classes instead
HasRetryBranchMandatory(u) == u \in {"morning", "evening"}

\* the entity classes whose async_update has the retry branch
HasRetryBranch(u) == u \in {"joke", "morning"}

\* sensor_classes[api_type].async_update, from the data on
async_update(u, data) ==
    IF HasRetryBranch(u) THEN RetryingUpdate(u, data) ELSE SimpleUpdate(u, data)

RetryTimer(u) ==
    [unit |-> u, kind |-> "retry", due |-> now + RETRY_DELAY, delay |-> RETRY_DELAY]

\* the call_later registration of _schedule_daily_update
DailyTimer(u) ==
    [unit |-> u, kind |-> "daily", due |-> now + DailyDelay(now),
     delay |-> DailyDelay(now)]

\* daily_update_callback without its `await self._schedule_daily_update()`
CompleteWithoutRearm(u, trigger, data, tm) ==
    LET r == async_update(u, data)
        t1 == IF r.retry THEN BagAdd(tm, RetryTimer(u)) ELSE tm
    IN  /\ _state' = [_state EXCEPT ![u] = r.st]
        /\ _available' = [_available EXCEPT ![u] = r.av]
        /\ _retry_count' = [_retry_count EXCEPT ![u] = r.rc]
        /\ timers' = t1
        /\ lifecycle' = IF trigger = "setup"
                        THEN [lifecycle EXCEPT ![u] = "updated"]
                        ELSE lifecycle

\* The rest of an update once _fetch_cached_data has returned `data`:
\* async_update's branches and, in daily_update_callback, the re-arming.
\* `tm` is the bag of timers the step starts from.
Complete(u, trigger, data, tm) ==
    LET r == async_update(u, data)
        t1 == IF r.retry THEN BagAdd(tm, RetryTimer(u)) ELSE tm
        t2 == IF trigger = "daily" THEN BagAdd(t1, DailyTimer(u)) ELSE t1
    IN  /\ _state' = [_state EXCEPT ![u] = r.st]
        /\ _available' = [_available EXCEPT ![u] = r.av]
        /\ _retry_count' = [_retry_count EXCEPT ![u] = r.rc]
        /\ timers' = t2
        /\ lifecycle' = IF trigger = "setup"
                        THEN [lifecycle EXCEPT ![u] = "updated"]
                        ELSE lifecycle

\* the update with the retry counter set back to 0 when a poll or the
\* daily timer starts it
StartResettingRetries(u, trigger, tm) ==
    LET key == CacheKey(u) IN
    IF CacheFresh(key, now)
    THEN /\ Complete(u, trigger, _data_cache[key], tm)
         /\ ev' = [op |-> "update", phase |-> "hit", unit |-> u,
                   trigger |-> trigger, data |-> _data_cache[key]]
         /\ UNCHANGED <<now, sensors, _data_cache, _cache_timestamp, tasks>>
    ELSE /\ BagCardinality(tasks) < MaxTasks
         /\ tasks' = BagAdd(tasks, [unit |-> u, trigger |-> trigger,
                                    current_time |-> now])
         /\ timers' = tm
         /\ lifecycle' = IF trigger = "setup"
                         THEN [lifecycle EXCEPT ![u] = "setup"]
                         ELSE lifecycle
         /\ ev' = [op |-> "update", phase |-> "fetch", unit |-> u,
                   trigger |-> trigger, data |-> None]
         /\ _retry_count' = IF trigger \in {"poll", "daily"}
                            THEN [_retry_count EXCEPT ![u] = 0]
                            ELSE _retry_count
         /\ UNCHANGED <<now, sensors, _data_cache, _cache_timestamp,
                        _state, _available>>

\* async_update up to the first suspension: _fetch_cached_data answers from
\* the cache and the update runs to its end, or the fetch is issued.
Start(u, trigger, tm) ==
    LET key == CacheKey(u) IN
    IF CacheFresh(key, now)
    THEN /\ Complete(u, trigger, _data_cache[key], tm)
         /\ ev' = [op |-> "update", phase |-> "hit", unit |-> u,
                   trigger |-> trigger, data |-> _data_cache[key]]
         /\ UNCHANGED <<now, sensors, _data_cache, _cache_timestamp, tasks>>
    ELSE /\ BagCardinality(tasks) < MaxTasks
         /\ tasks' = BagAdd(tasks, [unit |-> u, trigger |-> trigger,
                                    current_time |-> now])
         /\ timers' = tm
         /\ lifecycle' = IF trigger = "setup"
                         THEN [lifecycle EXCEPT ![u] = "setup"]
                         ELSE lifecycle
         /\ ev' = [op |-> "update", phase |-> "fetch", unit |-> u,
                   trigger |-> trigger, data |-> None]
         /\ UNCHANGED <<now, sensors, _data_cache, _cache_timestamp,
                        _state, _available, _retry_count>>

\* the network answers: _fetch_api_data returns, _fetch_cached_data stores
\* and returns, async_update runs to its end
Return(task, resp) ==
    LET u == task.unit
        key == CacheKey(u)
        data == _fetch_api_data(resp)
    IN  /\ BagIn(task, tasks)
        /\ tasks' = BagRemove(tasks, task)
        /\ IF Storable(data)
           THEN /\ _data_cache' = StoreData(key, data)
                /\ _cache_timestamp' = StoreTimestamp(key, task.current_time)
           ELSE UNCHANGED <<_data_cache, _cache_timestamp>>
        /\ Complete(u, task.trigger, data, timers)
        /\ ev' = [op |-> "return", unit |-> u, trigger |-> task.trigger,
                  resp |-> resp, data |-> data,
                  current_time |-> task.current_time,
                  rc_before |-> _retry_count[u],
                  av_before |-> _available[u]]
        /\ UNCHANGED <<now, sensors>>

\* the platform's polling of an added entity, every SCAN_INTERVAL
PollTimer(u, from) ==
    [unit |-> u, kind |-> "poll", due |-> from + SCAN_INTERVAL,
     delay |-> SCAN_INTERVAL]

\* async_added_to_hass: the first _schedule_daily_update; the platform
\* starts polling the entity
Added(u) ==
    /\ lifecycle[u] = "updated"
    /\ lifecycle' = [lifecycle EXCEPT ![u] = "added"]
    /\ timers' = BagAdd(BagAdd(timers, DailyTimer(u)), PollTimer(u, now))
    /\ ev' = [op |-> "added", unit |-> u]
    /\ UNCHANGED <<now, sensors, _data_cache, _cache_timestamp, _state,
                   _available, _retry_count, tasks>>

\* instants the clock stops at: a timer's due time, and the next second
\* while a fetch is under way
Instants ==
    {t.due : t \in BagToSet(timers)}
    \cup (IF tasks = EmptyBag THEN {} ELSE {now + 1})

\* the clock advances; no timer is skipped and no fetch outlives its bound
Advance(t) ==
    /\ t > now
    /\ t <= MaxTime
    /\ \A tm \in BagToSet(timers) : t <= tm.due
    /\ \A k \in BagToSet(tasks) :
          t - k.current_time <= MaxLatency /\ t - k.current_time <= FETCH_TIMEOUT
    /\ now' = t
    /\ ev' = [op |-> "tick"]
    /\ UNCHANGED <<sensors, lifecycle, _data_cache, _cache_timestamp, _state,
                   _available, _retry_count, timers, tasks>>

----------------------------------------------------------------------------
(* The system *)

\* self._last_time_slot = None and self._last_update_time = None: the id
\* and the time that stand for None
NoSlot == "None"

NoTime == 0 - 1

\* the per-type entities are taken alone: no aggregate entity is created
NoAggregates ==
    /\ _enabled_apis = << >>
    /\ _time_slots = << >>
    /\ _last_time_slot = NoSlot
    /\ _last_update_time = NoTime
    /\ _attributes = EmptyDict
    /\ _content_types = << >>
    /\ _current_index = 0
    /\ _scroll_interval = 0
    /\ _unsub_timer = None

Init ==
    /\ now \in StartTimes
    /\ \E u \in ContentTypes : sensors = {u}
    /\ lifecycle = [u \in sensors |-> "created"]
    /\ _data_cache = EmptyDict
    /\ _cache_timestamp = EmptyDict
    /\ _state = [u \in sensors |-> StateWaiting]
    /\ _available = [u \in sensors |-> TRUE]
    /\ _retry_count = [u \in sensors |-> 0]
    /\ timers = EmptyBag
    /\ tasks = EmptyBag
    /\ ev = [op |-> "init"]
    /\ scn = << >>
    /\ NoAggregates

\* async_add_entities(sensors, update_before_add=True): the first update
SetupUpdate ==
    \E u \in sensors :
        /\ lifecycle[u] = "created"
        /\ Start(u, "setup", timers)
        /\ UNCHANGED <<scn, aggVars>>

AddedToHass ==
    \E u \in sensors : Added(u) /\ UNCHANGED <<scn, aggVars>>

\* a registration of kind `kind` that is due
Due(kind) == {tm \in BagToSet(timers) : tm.kind = kind /\ tm.due = now}

\* the platform polls the entity and keeps its interval running
Poll ==
    \E tm \in Due("poll") :
        /\ Start(tm.unit, "poll",
                 BagAdd(BagRemove(timers, tm), PollTimer(tm.unit, tm.due)))
        /\ UNCHANGED <<scn, aggVars>>

\* call_later(1800, ...) comes due: retry_update
FireRetry ==
    \E tm \in Due("retry") :
        /\ Start(tm.unit, "retry", BagRemove(timers, tm))
        /\ UNCHANGED <<scn, aggVars>>

\* call_later(delay, ...) comes due: daily_update_callback
FireDaily ==
    \E tm \in Due("daily") :
        /\ Start(tm.unit, "daily", BagRemove(timers, tm))
        /\ UNCHANGED <<scn, aggVars>>

FetchReturn ==
    \E task \in BagToSet(tasks) : \E resp \in Responses :
        Return(task, resp) /\ UNCHANGED <<scn, aggVars>>

Tick ==
    \E t \in Instants : Advance(t) /\ UNCHANGED <<scn, aggVars>>

Next ==
    \/ SetupUpdate
    \/ AddedToHass
    \/ Poll
    \/ FireRetry
    \/ FireDaily
    \/ FetchReturn
    \/ Tick

Spec == Init /\ [][Next]_vars

----------------------------------------------------------------------------
(* Scenario runs: the same system with its updates made one after the      *)
(* other (none starts while a fetch is under way), at most MaxCalls of      *)
(* them, each logged in scn.                                               *)

\* the log entry of an update of u that starts now
LogStart(u, trigger) ==
    LET hit == CacheFresh(CacheKey(u), now) IN
    /\ tasks = EmptyBag
    /\ Len(scn) < MaxCalls
    /\ scn' = Append(scn, [unit |-> u, trigger |-> trigger, at |-> now,
                           fetched |-> ~hit, done |-> hit, ok |-> hit,
                           end |-> now])

\* the log entry of the update under way, completed
LogReturn(data) ==
    scn' = [scn EXCEPT ![Len(scn)] =
               [@ EXCEPT !.done = TRUE, !.ok = Truthy(data), !.end = now]]

SeqSetupUpdate ==
    \E u \in sensors :
        /\ lifecycle[u] = "created"
        /\ Start(u, "setup", timers)
        /\ LogStart(u, "setup")
        /\ UNCHANGED aggVars

SeqAddedToHass ==
    \E u \in sensors : Added(u) /\ UNCHANGED <<scn, aggVars>>

SeqPoll ==
    \E tm \in Due("poll") :
        /\ Start(tm.unit, "poll",
                 BagAdd(BagRemove(timers, tm), PollTimer(tm.unit, tm.due)))
        /\ LogStart(tm.unit, "poll")
        /\ UNCHANGED aggVars

SeqFireRetry ==
    \E tm \in Due("retry") :
        /\ Start(tm.unit, "retry", BagRemove(timers, tm))
        /\ LogStart(tm.unit, "retry")
        /\ UNCHANGED aggVars

SeqFireDaily ==
    \E tm \in Due("daily") :
        /\ Start(tm.unit, "daily", BagRemove(timers, tm))
        /\ LogStart(tm.unit, "daily")
        /\ UNCHANGED aggVars

SeqFetchReturn ==
    \E task \in BagToSet(tasks) : \E resp \in Responses :
        /\ Return(task, resp)
        /\ LogReturn(_fetch_api_data(resp))
        /\ UNCHANGED aggVars

SeqTick ==
    \E t \in Instants : Advance(t) /\ UNCHANGED <<scn, aggVars>>

NextSeq ==
    \/ SeqSetupUpdate
    \/ SeqAddedToHass
    \/ SeqPoll
    \/ SeqFireRetry
    \/ SeqFireDaily
    \/ SeqFetchReturn
    \/ SeqTick

SpecSeq == Init /\ [][NextSeq]_vars

----------------------------------------------------------------------------
(* Properties *)

\* a response the fetcher classifies as Success
Success(resp) ==
    resp.exc = "none" /\ resp.status = 200 /\ resp.code = 200

\* the retry registrations of entity u in a bag of timers
RetryTimers(B, u) ==
    {t \in BagToSet(B) : t.kind = "retry" /\ t.unit = u}

RECURSIVE CopiesOver(_, _)
CopiesOver(S, B) ==
    IF S = {} THEN 0
    ELSE LET t == CHOOSE x \in S : TRUE
         IN  CopiesIn(t, B) + CopiesOver(S \ {t}, B)

NumRetryTimers(B, u) == CopiesOver(RetryTimers(B, u), B)

\* whether d holds the same thing under k before and after a step
SameEntry(d, e, k) ==
    /\ (k \in DOMAIN d) = (k \in DOMAIN e)
    /\ (k \in DOMAIN d => d[k] = e[k])

\* C1: a call of _fetch_cached_data made while a payload and a timestamp are
\* stored for its key and now - fetchedAt < 43200 s returns the cached payload
\* and issues no fetch; made with no entry, or with now - fetchedAt >= 43200 s
\* (the boundary included), it issues exactly one fetch.
C1_HitWithinTTLElseOneFetch ==
    [][ev'.op = "update" =>
        LET key == CacheKey(ev'.unit) IN
        IF /\ key \in DOMAIN _data_cache
           /\ key \in DOMAIN _cache_timestamp
           /\ now - _cache_timestamp[key] < 43200
        THEN /\ tasks' = tasks
             /\ ev'.phase = "hit"
             /\ ev'.data = _data_cache[key]
        ELSE /\ BagCardinality(tasks') = BagCardinality(tasks) + 1
             /\ ev'.phase = "fetch"]_vars

\* C1 witness: a call answered from an entry that is 43199 s old
C1_Witness ==
    /\ ev.op = "update"
    /\ ev.phase = "hit"
    /\ CacheKey(ev.unit) \in DOMAIN _cache_timestamp
    /\ now - _cache_timestamp[CacheKey(ev.unit)] = 43199

\* C2: when the outcome of a fetch is not Success (code 130, code 100, another
\* code, an HTTP error, a timeout, a transport error) the call leaves both
\* cache maps as they were, creating no entry, and returns None.
C2_StaleIfError ==
    [][(ev'.op = "return" /\ ~Success(ev'.resp)) =>
        /\ _data_cache' = _data_cache
        /\ _cache_timestamp' = _cache_timestamp
        /\ ev'.data = None]_vars

\* C2 witness: a rate-limited refresh of a key that holds a stale entry
C2_Witness ==
    /\ ev.op = "return"
    /\ ev.resp.code = 130
    /\ CacheKey(ev.unit) \in DOMAIN _data_cache
    /\ ev.current_time - _cache_timestamp[CacheKey(ev.unit)] >= 43200

CacheWellFormed ==
    /\ DOMAIN _data_cache = DOMAIN _cache_timestamp
    /\ DOMAIN _data_cache \subseteq ContentTypes
    /\ \A k \in DOMAIN _data_cache :
          _data_cache[k] # None /\ _data_cache[k].code = 200

CacheReplacedTogether ==
    \A k \in ContentTypes :
        (~SameEntry(_data_cache, _data_cache', k)
            \/ ~SameEntry(_cache_timestamp, _cache_timestamp', k))
        => /\ ev'.op = "return"
           /\ Success(ev'.resp)
           /\ k = CacheKey(ev'.unit)
           /\ k \in DOMAIN _data_cache' /\ k \in DOMAIN _cache_timestamp'
           /\ _data_cache'[k] = [code |-> 200, result |-> ev'.resp.result]
           /\ _cache_timestamp'[k] = ev'.current_time

\* C3: in every reachable state the keys holding a payload are the keys
\* holding a timestamp (one entry per content type), every stored payload has
\* application code 200, and a step that changes the payload or the timestamp
\* of a key is the return of a Success fetch for that key, which writes both.
C3_CacheInvariant ==
    []CacheWellFormed /\ [][CacheReplacedTogether]_vars

\* C3 witness: a successful refresh has just written over an existing entry's
\* key on a later trigger than the first update
C3_Witness ==
    /\ ev.op = "return"
    /\ Success(ev.resp)
    /\ ev.trigger = "poll"
    /\ _cache_timestamp[CacheKey(ev.unit)] = ev.current_time
    /\ _data_cache[CacheKey(ev.unit)].result = ev.resp.result

\* the calls 2 .. j-1 of the log were answered from the cache
HitsBetween(j) == \A i \in 2..(j - 1) : ~scn[i].fetched

\* C4 as stated: from an empty cache, two successive calls on a key made
\* within 43200 s of each other issue exactly one fetch in total, whatever the
\* outcome of the fetches.
C4_OneFetchWithinTTLAnyOutcome ==
    (Len(scn) >= 2 /\ scn[2].at - scn[1].at < 43200)
        => (scn[1].fetched /\ ~scn[2].fetched)

\* C4 amended: from an empty cache the first call fetches; if that fetch
\* succeeds, a later call with only cache hits in between fetches exactly
\* when 43200 s or more have passed since the first call.
C4_OneFetchWithinTTLAfterSuccess ==
    /\ Len(scn) >= 1 => scn[1].fetched
    /\ \A j \in 2..Len(scn) :
          (scn[1].done /\ scn[1].ok /\ HitsBetween(j))
              => (scn[j].fetched <=> scn[j].at - scn[1].at >= 43200)

\* C4 witness: a successful first call, a second call within the TTL that is
\* a hit, a third call after the TTL that fetches
C4_Witness ==
    /\ Len(scn) = 3
    /\ scn[1].fetched /\ scn[1].ok
    /\ scn[2].at - scn[1].at < 43200 /\ ~scn[2].fetched
    /\ scn[3].at - scn[1].at >= 43200 /\ scn[3].fetched

\* C5: _fetch_api_data returns the body exactly when the request raised
\* nothing, the HTTP status is 200 and the body's code is 200; in every other
\* case (code 130, code 100, another code, an HTTP error, a timeout, another
\* exception) it returns None, and the caller runs on.
C5_FetchReturnsPayloadIffSuccess ==
    ev.op = "return" =>
        IF ev.resp.exc = "none" /\ ev.resp.status = 200 /\ ev.resp.code = 200
        THEN ev.data = [code |-> 200, result |-> ev.resp.result]
        ELSE ev.data = None

\* C5 witness: a fetch that timed out has returned None to an update that
\* ran to its end
C5_Witness ==
    /\ ev.op = "return"
    /\ ev.resp.exc = "TimeoutError"
    /\ ev.data = None
    /\ ~_available[ev.unit]

\* the first n updates of the log are over and none obtained data
FailedUpTo(n) ==
    /\ Len(scn) = n
    /\ \A i \in 1..n : scn[i].done /\ ~scn[i].ok

\* the log is one failed update followed by its retries only
RetryChain ==
    /\ Len(scn) >= 1
    /\ scn[1].unit \in {"joke", "morning"}
    /\ \A i \in 2..Len(scn) : scn[i].trigger = "retry"

\* C6: a unit with the retry branch whose counter is 0 and whose fetches all
\* fail, with no other trigger in between: the first failed update registers
\* exactly one retry 1800 s ahead, the second (that retry) exactly one more,
\* the third registers none and leaves the unit unavailable with the state
\* "API请求失败": 3 attempts, 2 retries, then no retry pending.
C6_RetryBound ==
    LET u == scn[1].unit
        pending == RetryTimers(timers, u)
    IN
    RetryChain =>
        /\ Len(scn) <= 3
        /\ \A i \in 2..Len(scn) : scn[i].at = scn[i - 1].end + 1800
        /\ (FailedUpTo(1) \/ FailedUpTo(2)) =>
              /\ NumRetryTimers(timers, u) = 1
              /\ \A t \in pending :
                    t.delay = 1800 /\ t.due = scn[Len(scn)].end + 1800
              /\ _retry_count[u] = Len(scn)
        /\ FailedUpTo(3) =>
              /\ pending = {}
              /\ _retry_count[u] = 2
              /\ ~_available[u]
              /\ _state[u] = StateApiFailed

\* C6 witness: the third attempt of the chain has failed
C6_Witness ==
    /\ RetryChain
    /\ FailedUpTo(3)
    /\ ~_available[scn[1].unit]

\* a step that ends an update which obtained no data
FailedUpdateStep == ev'.op = "return" /\ ev'.data = None

\* C7 as stated: a failed refresh registers a retry exactly for the morning
\* and evening greeting units; a unit of any other type registers none and
\* is unavailable at once.
C7_RetryOnlyForMandatoryTypes ==
    [][FailedUpdateStep =>
        LET u == ev'.unit IN
        IF u \in {"morning", "evening"}
        THEN _retry_count[u] < 2 =>
                NumRetryTimers(timers', u) = NumRetryTimers(timers, u) + 1
        ELSE /\ NumRetryTimers(timers', u) = NumRetryTimers(timers, u)
             /\ ~_available'[u]]_vars

\* C7 amended: a failed refresh registers a retry exactly for the joke and
\* morning greeting units (while their counter is below 2); a unit of any
\* other type, the evening greeting included, registers none and is
\* unavailable at once.
C7_RetryOnlyForJokeAndMorning ==
    [][FailedUpdateStep =>
        LET u == ev'.unit IN
        IF u \in {"joke", "morning"}
        THEN IF _retry_count[u] < 2
             THEN NumRetryTimers(timers', u) = NumRetryTimers(timers, u) + 1
             ELSE NumRetryTimers(timers', u) = NumRetryTimers(timers, u)
        ELSE /\ NumRetryTimers(timers', u) = NumRetryTimers(timers, u)
             /\ ~_available'[u]]_vars

\* C7 witness: the evening unit's first refresh failed; it is unavailable
\* and no retry is registered
C7_Witness ==
    /\ ev.op = "return"
    /\ ev.unit = "evening"
    /\ ev.trigger = "setup"
    /\ ev.data = None
    /\ ~_available["evening"]
    /\ RetryTimers(timers, "evening") = {}

\* a step that ends an update of a unit with the retry branch with data
GotDataStep ==
    /\ ev'.op \in {"update", "return"}
    /\ ev'.unit \in {"joke", "morning"}
    /\ ev'.data # None

\* C8 as stated: whenever an update of a unit with the retry branch obtains
\* data (a successful fetch or a cache hit) its counter becomes 0 and it is
\* available with the current date as state.
C8_ResetOnAnyData ==
    [][GotDataStep =>
        /\ _retry_count'[ev'.unit] = 0
        /\ _available'[ev'.unit]
        /\ _state'[ev'.unit] = [kind |-> "date", day |-> now' \div 86400]]_vars

\* C8 amended: whenever an update of a unit with the retry branch obtains
\* data whose result is an object of the expected shape (so that extracting
\* it raises nothing), its counter becomes 0 and it is available with the
\* current date as state, whatever they were before.
C8_ResetOnWellFormedData ==
    [][(GotDataStep /\ ev'.data.result = "dict") =>
        /\ _retry_count'[ev'.unit] = 0
        /\ _available'[ev'.unit]
        /\ _state'[ev'.unit] = [kind |-> "date", day |-> now' \div 86400]]_vars

\* C8 witness: a unit that had used up its retries and was unavailable has
\* obtained data and is available again with counter 0
C8_Witness ==
    /\ ev.op = "return"
    /\ ev.unit \in {"joke", "morning"}
    /\ ev.rc_before = 2
    /\ ~ev.av_before
    /\ ev.data # None
    /\ _retry_count[ev.unit] = 0
    /\ _available[ev.unit]

\* the seconds from instant t to the next 00:01:00
ToNextDailyInstant(t) ==
    IF (t % 86400) < 60 THEN 60 - (t % 86400) ELSE 86400 + 60 - (t % 86400)

\* C9: every delay computed by _schedule_daily_update is the time from the
\* instant of the computation to the next 00:01:00, hence in (0, 24 h], also
\* when it runs between 00:00:00 and 00:00:59.
C9_DelayToNextOccurrence ==
    \A t \in BagToSet(timers) :
        t.kind = "daily" =>
            /\ t.delay = ToNextDailyInstant(t.due - t.delay)
            /\ 0 < t.delay /\ t.delay <= 86400

\* C10: every firing of the daily timer issues a fetch for the unit's type,
\* whatever the age of its cache entry.
C10_DailyFiringFetches ==
    [][(ev'.op = "update" /\ ev'.trigger = "daily") =>
        /\ ev'.phase = "fetch"
        /\ BagCardinality(tasks') = BagCardinality(tasks) + 1]_vars

----------------------------------------------------------------------------
(* The daily call_later chain *)

\* the daily registrations of entity u in a bag of timers
DailyTimers(B, u) ==
    {t \in BagToSet(B) : t.kind = "daily" /\ t.unit = u}

\* the daily_update_callback coroutines of entity u suspended in the fetch
DailyRunning(u) ==
    {k \in BagToSet(tasks) : k.trigger = "daily" /\ k.unit = u}

\* daily timers of u pending plus daily callbacks of u running
NumDaily(u) ==
    CopiesOver(DailyTimers(timers, u), timers)
    + CopiesOver(DailyRunning(u), tasks)

OneDailyPerLiveUnit ==
    \A u \in sensors : lifecycle[u] = "added" => NumDaily(u) = 1

\* a step that takes a daily timer of a unit out of the pending ones is
\* the firing of that timer and starts one update of the unit, no other
\* daily callback of the unit running
DailyFiringStartsOneUpdate ==
    timers' # timers =>
        \A u \in sensors :
            (\E t \in DailyTimers(timers, u) :
                CopiesIn(t, timers') < CopiesIn(t, timers))
            => /\ ev'.op = "update" /\ ev'.trigger = "daily" /\ ev'.unit = u
               /\ DailyRunning(u) = {}
               /\ CopiesOver(DailyTimers(timers, u), timers) = 1

\* the state after an update started by the daily timer has ended: one
\* timer is armed again, due at 00:01 of the day after
DailyUpdateEndRearms ==
    ((ev.op = "update" /\ ev.trigger = "daily" /\ ev.phase = "hit")
     \/ (ev.op = "return" /\ ev.trigger = "daily"))
    => /\ DailyTimers(timers, ev.unit) =
            {[unit |-> ev.unit, kind |-> "daily",
              due |-> (_get_current_date(now) + 1) * DAY + DAILY_SECOND,
              delay |-> (_get_current_date(now) + 1) * DAY + DAILY_SECOND - now]}
       /\ CopiesOver(DailyTimers(timers, ev.unit), timers) = 1

\* C11: once a per-type unit is added, each firing of its daily timer runs
\* exactly one update of the unit and then re-arms exactly one timer for
\* the following day, whatever the outcome of the update (success, failure,
\* internal fault); a live unit always has exactly one daily timer pending
\* or running.
C11_DailyTimerPerpetuity ==
    /\ []OneDailyPerLiveUnit
    /\ []DailyUpdateEndRearms
    /\ [][DailyFiringStartsOneUpdate]_vars

\* a daily update that failed has ended and the timer is armed again
C11_Witness ==
    /\ ev.op = "return" /\ ev.trigger = "daily" /\ ev.data = None
    /\ lifecycle[ev.unit] = "added"
    /\ \E t \in DailyTimers(timers, ev.unit) : t.due = 2 * DAY + DAILY_SECOND

----------------------------------------------------------------------------
(* Teardown of a per-type entity *)

\* The platform removes an added entity.  BaseTianSensor defines no
\* async_will_remove_from_hass and keeps no handle of its call_later
\* registrations: the platform stops polling the entity, nothing else is
\* unregistered.
Removed(u) ==
    /\ lifecycle[u] = "added"
    /\ lifecycle' = [lifecycle EXCEPT ![u] = "removed"]
    /\ timers' = timers (-) [t \in {x \in BagToSet(timers) :
                                       x.unit = u /\ x.kind = "poll"}
                                 |-> CopiesIn(t, timers)]
    /\ ev' = [op |-> "removed", unit |-> u]
    /\ UNCHANGED <<now, sensors, _data_cache, _cache_timestamp, _state,
                   _available, _retry_count, tasks>>

RemoveFromHass ==
    \E u \in sensors : Removed(u) /\ UNCHANGED <<scn, aggVars>>

NextLife ==
    \/ Next
    \/ RemoveFromHass

SpecLife == Init /\ [][NextLife]_vars

\* no registration of a removed unit is pending
NoTimerOfRemovedUnit ==
    \A u \in sensors :
        lifecycle[u] = "removed" => \A t \in BagToSet(timers) : t.unit # u

\* no step runs a callback of a removed unit
NoCallbackOfRemovedUnit ==
    \A u \in sensors :
        lifecycle[u] = "removed" => ~(ev'.op = "update" /\ ev'.unit = u)

\* C12: when a unit is removed from the host platform every timer it owns
\* (daily reschedule, pending retry, rotation interval) is unregistered: in
\* every state after the removal no timer of the unit is pending and no
\* callback of the unit fires.
C12_TimersCancelledOnTeardown ==
    /\ []NoTimerOfRemovedUnit
    /\ [][NoCallbackOfRemovedUnit]_vars

----------------------------------------------------------------------------
(* TianTimeSlotContentSensor: the slots of the day *)

\* const.SCROLL_CONTENT_TYPES, the catalogue in its order
SCROLL_CONTENT_TYPES ==
    <<"joke", "morning", "evening", "poetry", "songci",
      "yuanqu", "history", "sentence", "couplet", "maxim">>

\* the two types the config flow always appends to the selection
MandatoryTypes == <<"morning", "evening">>

Reverse(q) == [i \in 1..Len(q) |-> q[Len(q) + 1 - i]]

IsMandatory(a) == a = "morning" \/ a = "evening"

IsOptional(a) == ~IsMandatory(a)

\* the members of the catalogue that are in S, in catalogue order
InCatalogueOrder(S) ==
    LET Keep(a) == a \in S IN SelectSeq(SCROLL_CONTENT_TYPES, Keep)

\* What the config flow stores as CONF_ENABLED_APIS: the optional types the
\* user selected (here in catalogue order or in the reverse order), then
\* "morning" and "evening" appended.
EnabledConfigs ==
    {InCatalogueOrder(S) \o MandatoryTypes :
        S \in SUBSET (ContentTypes \ {"morning", "evening"})}
    \cup
    {Reverse(InCatalogueOrder(S)) \o MandatoryTypes :
        S \in SUBSET (ContentTypes \ {"morning", "evening"})}

\* [api for api in self._enabled_apis if api not in ["morning", "evening"]]
enabled_optional_apis(apis) == SelectSeq(apis, IsOptional)

\* the display name of a slot (API_TYPES[api_type]['name'] + "时段")
SlotName(api_type) == <<api_type, "slot">>

\* _generate_time_slots whose last slot has the width of the others
GenerateTimeSlotsEqualWidth(apis) ==
    LET opt == enabled_optional_apis(apis)
        fixed == <<[api_type |-> "morning", start |-> 5 * 60,
                    end |-> 7 * 60 + 59, name |-> SlotName("morning")],
                   [api_type |-> "evening", start |-> 23 * 60,
                    end |-> 4 * 60 + 59, name |-> SlotName("evening")]>>
    IN  IF Len(opt) = 0 THEN fixed
        ELSE LET total_minutes == (22 * 60 + 59) - (8 * 60) + 1
                 slot_duration == total_minutes \div Len(opt)
                 current_start(i) == 8 * 60 + (i - 1) * slot_duration
             IN  fixed \o
                 [i \in 1..Len(opt) |->
                    [api_type |-> opt[i],
                     start |-> current_start(i),
                     end |-> current_start(i) + slot_duration - 1,
                     name |-> SlotName(opt[i])]]

\* TianTimeSlotContentSensor._generate_time_slots: the dict time_slots as
\* the sequence of its items in insertion order (the list holds no type
\* twice, so no key is overwritten)
_generate_time_slots(apis) ==
    LET opt == enabled_optional_apis(apis)
        fixed == <<[api_type |-> "morning", start |-> 5 * 60,
                    end |-> 7 * 60 + 59, name |-> SlotName("morning")],
                   [api_type |-> "evening", start |-> 23 * 60,
                    end |-> 4 * 60 + 59, name |-> SlotName("evening")]>>
    IN  IF Len(opt) = 0 THEN fixed
        ELSE LET total_minutes == (22 * 60 + 59) - (8 * 60) + 1
                 slot_duration == total_minutes \div Len(opt)
                 current_start(i) == 8 * 60 + (i - 1) * slot_duration
             IN  fixed \o
                 [i \in 1..Len(opt) |->
                    [api_type |-> opt[i],
                     start |-> current_start(i),
                     end |-> IF i = Len(opt) THEN 22 * 60 + 59
                             ELSE current_start(i) + slot_duration - 1,
                     name |-> SlotName(opt[i])]]

\* now.hour * 60 + now.minute
MinuteOfDay(t) == SecondOfDay(t) \div 60

\* the test with the last minute of a slot left out
SlotMatchesBeforeEnd(slot_info, total_minutes) ==
    IF slot_info.start <= slot_info.end
    THEN slot_info.start <= total_minutes /\ total_minutes < slot_info.end
    ELSE total_minutes >= slot_info.start \/ total_minutes < slot_info.end

\* the test of _get_current_time_slot on one slot
SlotMatches(slot_info, total_minutes) ==
    IF slot_info.start <= slot_info.end
    THEN slot_info.start <= total_minutes /\ total_minutes <= slot_info.end
    ELSE total_minutes >= slot_info.start \/ total_minutes <= slot_info.end

\* the positions of the slots that match a minute
MatchingSlots(slots, total_minutes) ==
    {i \in 1..Len(slots) : SlotMatches(slots[i], total_minutes)}

\* TianTimeSlotContentSensor._get_current_time_slot at instant t: the first
\* slot in insertion order that matches, or the default pair
_get_current_time_slot(slots, t) ==
    LET hits == MatchingSlots(slots, MinuteOfDay(t)) IN
    IF hits = {} THEN [api_type |-> "default", name |-> SlotName("default")]
    ELSE LET i == CHOOSE j \in hits : \A k \in hits : j <= k
         IN  [api_type |-> slots[i].api_type, name |-> slots[i].name]

\* TianTimeSlotContentSensor.__init__ for a configuration, at midnight
InitResolve ==
    /\ now = 0
    /\ sensors = {"time_slot"}
    /\ lifecycle = [u \in sensors |-> "created"]
    /\ _data_cache = EmptyDict
    /\ _cache_timestamp = EmptyDict
    /\ _state = [u \in sensors |-> StateDate(now)]
    /\ _available = [u \in sensors |-> TRUE]
    /\ _retry_count = [u \in sensors |-> 0]
    /\ timers = EmptyBag
    /\ tasks = EmptyBag
    /\ ev = [op |-> "init"]
    /\ scn = << >>
    /\ _enabled_apis \in EnabledConfigs
    /\ _time_slots = _generate_time_slots(_enabled_apis)
    /\ _last_time_slot = NoSlot
    /\ _last_update_time = NoTime
    /\ _attributes = EmptyDict
    /\ _content_types = << >>
    /\ _current_index = 0
    /\ _scroll_interval = 0
    /\ _unsub_timer = None

\* _get_current_time_slot called minute after minute through the day
Resolve ==
    LET t == IF ev.op = "init" THEN now ELSE now + 60
        r == _get_current_time_slot(_time_slots, t)
    IN  /\ t < DAY
        /\ now' = t
        /\ ev' = [op |-> "resolve", minute |-> MinuteOfDay(t),
                  api_type |-> r.api_type, name |-> r.name]
        /\ UNCHANGED <<sensors, lifecycle, _data_cache, _cache_timestamp,
                       _state, _available, _retry_count, timers, tasks, scn,
                       aggVars>>

NextResolve == Resolve

SpecResolve == InitResolve /\ [][NextResolve]_vars

\* C13: for every enabled-type configuration (morning and evening always
\* included, plus any subset of the optional types in any order) and every
\* minute of the day exactly one slot matches, so that resolve never
\* returns the default id - with only morning and evening enabled too.
C13_SlotExhaustiveness ==
    ev.op = "resolve" =>
        /\ Cardinality(MatchingSlots(_time_slots, ev.minute)) = 1
        /\ ev.api_type # "default"

\* the minutes owned by the i-th optional type (0-based) of n, d = 900 div n
OwnedMinutes(i, n) ==
    LET d == 900 \div n IN
    IF i < n - 1 THEN (480 + i * d)..(480 + (i + 1) * d - 1)
    ELSE (480 + (n - 1) * d)..1379

\* C14: with n >= 1 enabled optional types in list order and d = 900 div n,
\* morning owns minutes 300..479, evening 1380..1439 and 0..299, the i-th
\* optional type (i < n-1) exactly 480 + i*d .. 480 + (i+1)*d - 1 and the
\* last one 480 + (n-1)*d .. 1379; the optional slots are contiguous,
\* pairwise disjoint and cover 480..1379.
C14_DynamicPartition ==
    LET opt == enabled_optional_apis(_enabled_apis)
        n == Len(opt)
    IN  (ev.op = "resolve" /\ n >= 1) =>
            /\ ev.api_type = "morning" <=> ev.minute \in 300..479
            /\ ev.api_type = "evening"
                    <=> ev.minute \in (1380..1439) \cup (0..299)
            /\ \A i \in 0..(n - 1) :
                  ev.api_type = opt[i + 1] <=> ev.minute \in OwnedMinutes(i, n)
            /\ \A i \in 0..(n - 1) :
                  /\ _time_slots[i + 3].api_type = opt[i + 1]
                  /\ _time_slots[i + 3].start = 480 + i * (900 \div n)
                  /\ i < n - 1 =>
                        _time_slots[i + 3].end + 1 = _time_slots[i + 4].start
                  /\ i = n - 1 => _time_slots[i + 3].end = 1379

\* seven optional types: the last one is resolved in a remainder minute
C14_Witness ==
    LET opt == enabled_optional_apis(_enabled_apis) IN
    /\ ev.op = "resolve"
    /\ Len(opt) = 7
    /\ ev.minute = 480 + 7 * (900 \div 7) + 1
    /\ ev.api_type = opt[7]

----------------------------------------------------------------------------
(* TianTimeSlotContentSensor: the polled update *)

\* cache stores made in a run of an aggregate entity
MaxStores == 3

\* the payloads _fetch_cached_data can store
StorablePayloads ==
    {_fetch_api_data(r) : r \in {x \in Responses : Storable(_fetch_api_data(x))}}

\* Python truthiness of data.get("result")
ResultTruthy(data) == data.result # "null"

\* _get_current_time: "%Y-%m-%d %H:%M:%S" of the instant, one string per
\* second, kept as the second
_get_current_time(t) == t

\* TianTimeSlotContentSensor._is_cache_ready
SlotCacheReady ==
    \A i \in 1..Len(_enabled_apis) :
        /\ _enabled_apis[i] \in DOMAIN _data_cache
        /\ Truthy(_data_cache[_enabled_apis[i]])
        /\ ResultTruthy(_data_cache[_enabled_apis[i]])

\* TianTimeSlotContentSensor._set_default_attributes
SlotDefaultAttributes(t, message) ==
    [title |-> "placeholder",
     content1 |-> [kind |-> "placeholder", of |-> message, result |-> ""],
     time_slot |-> SlotName("default"),
     update_time |-> _get_current_time(t),
     update_date |-> _get_current_date(t)]

\* whether _get_time_slot_content raises on a payload with a truthy result:
\* data.get("result", {}).get(...) needs an object, list[0].get(...) an
\* object as first element, `"早安" not in content` a string; songci turns
\* its content into a string; the other types go through _extract_result
SlotContentRaises(api_type, data) ==
    IF api_type \in {"history", "sentence", "couplet", "maxim"} THEN FALSE
    ELSE IF api_type = "songci" THEN data.result = "list"
    ELSE data.result # "dict"

\* _get_time_slot_content: title, title2, align and subalign are literals
\* of the type; subtitle, content1 and content2 are taken from the payload
_get_time_slot_content(api_type, data) ==
    [title |-> api_type,
     content1 |-> [kind |-> "content", of |-> api_type, result |-> data.result]]

\* TianTimeSlotContentSensor.async_update at instant `now`
SlotAsyncUpdate ==
    LET u == "time_slot"
        current_date == _get_current_date(now)
        slot == _get_current_time_slot(_time_slots, now)
        current_api_type == slot.api_type
        present == /\ current_api_type \in DOMAIN _data_cache
                   /\ Truthy(_data_cache[current_api_type])
                   /\ ResultTruthy(_data_cache[current_api_type])
    IN
    /\ _state' = [_state EXCEPT ![u] = StateDate(now)]
    /\ IF ~SlotCacheReady
       THEN /\ _attributes' = SlotDefaultAttributes(now, "waiting for data")
            /\ ev' = [op |-> "slot_update", ready |-> FALSE,
                      recomputed |-> FALSE, raised |-> FALSE]
            /\ UNCHANGED <<_last_time_slot, _last_update_time, _available>>
       ELSE IF current_api_type # _last_time_slot
       THEN /\ _last_time_slot' = current_api_type
            /\ _last_update_time' = _get_current_time(now)
            /\ IF present
               THEN IF SlotContentRaises(current_api_type,
                                         _data_cache[current_api_type])
                    THEN /\ _available' = [_available EXCEPT ![u] = FALSE]
                         /\ UNCHANGED _attributes
                         /\ ev' = [op |-> "slot_update", ready |-> TRUE,
                                   recomputed |-> FALSE, raised |-> TRUE]
                    ELSE LET c == _get_time_slot_content(
                                      current_api_type,
                                      _data_cache[current_api_type])
                         IN
                         /\ _available' = [_available EXCEPT ![u] = TRUE]
                         /\ _attributes' =
                                [title |-> c.title,
                                 content1 |-> c.content1,
                                 time_slot |-> slot.name,
                                 update_time |-> _get_current_time(now),
                                 update_date |-> current_date]
                         /\ ev' = [op |-> "slot_update", ready |-> TRUE,
                                   recomputed |-> TRUE, raised |-> FALSE]
               ELSE /\ _attributes' =
                           SlotDefaultAttributes(now, "slot content unavailable")
                    /\ ev' = [op |-> "slot_update", ready |-> TRUE,
                              recomputed |-> FALSE, raised |-> FALSE]
                    /\ UNCHANGED _available
       ELSE /\ _attributes' =
                   IF _last_update_time # NoTime
                   THEN DictSet(_attributes, "update_time", _last_update_time)
                   ELSE _attributes
            /\ ev' = [op |-> "slot_update", ready |-> TRUE,
                      recomputed |-> FALSE, raised |-> FALSE]
            /\ UNCHANGED <<_last_time_slot, _last_update_time, _available>>

\* configurations of the time-slot entity in the model
SlotConfigs == {<<"morning", "evening">>, <<"joke", "morning", "evening">>}

\* instants of the model: 07:59:00, 07:59:30, 08:00:00, 08:00:30, 23:00:00
\* (the platform polls the entity every 30 s)
SlotPollTimes == {28740, 28770, 28800, 28830, 82800}

InitSlot ==
    /\ now = 28740
    /\ sensors = {"time_slot"}
    /\ lifecycle = [u \in sensors |-> "created"]
    /\ _data_cache = EmptyDict
    /\ _cache_timestamp = EmptyDict
    /\ _state = [u \in sensors |-> StateDate(now)]
    /\ _available = [u \in sensors |-> TRUE]
    /\ _retry_count = [u \in sensors |-> 0]
    /\ timers = EmptyBag
    /\ tasks = EmptyBag
    /\ ev = [op |-> "init"]
    /\ scn = << >>
    /\ _enabled_apis \in SlotConfigs
    /\ _time_slots = _generate_time_slots(_enabled_apis)
    /\ _last_time_slot = NoSlot
    /\ _last_update_time = NoTime
    /\ _attributes = EmptyDict
    /\ _content_types = << >>
    /\ _current_index = 0
    /\ _scroll_interval = 0
    /\ _unsub_timer = None

\* the platform polls the time-slot entity (update_before_add, then the
\* polling interval)
SlotPoll ==
    /\ SlotAsyncUpdate
    /\ UNCHANGED <<now, sensors, lifecycle, _data_cache, _cache_timestamp,
                   _retry_count, timers, tasks, scn, _enabled_apis,
                   _time_slots, _content_types, _current_index,
                   _scroll_interval, _unsub_timer>>

\* a per-type entity's _fetch_cached_data stores a payload it fetched
CacheStored ==
    \E i \in 1..Len(_enabled_apis) : \E data \in StorablePayloads :
        /\ Cardinality({j \in 1..Len(scn) : scn[j].op = "store"}) < MaxStores
        /\ _data_cache' = StoreData(CacheKey(_enabled_apis[i]), data)
        /\ _cache_timestamp' = StoreTimestamp(CacheKey(_enabled_apis[i]), now)
        /\ scn' = <<[op |-> "store"]>> \o scn
        /\ ev' = [op |-> "store"]
        /\ UNCHANGED <<now, sensors, lifecycle, _state, _available,
                       _retry_count, timers, tasks, aggVars>>

\* time passes up to a later instant of the model
SlotTick ==
    \E t \in SlotPollTimes :
        /\ t > now
        /\ now' = t
        /\ ev' = [op |-> "tick"]
        /\ UNCHANGED <<sensors, lifecycle, _data_cache, _cache_timestamp,
                       _state, _available, _retry_count, timers, tasks, scn,
                       aggVars>>

NextSlot ==
    \/ SlotPoll
    \/ CacheStored
    \/ SlotTick

SpecSlot == InitSlot /\ [][NextSlot]_vars

\* the update_time attribute, -1 when the attributes have none
UpdateTimeOf(attrs) ==
    IF "update_time" \in DOMAIN attrs THEN attrs.update_time ELSE 0 - 1

\* the id resolve() returns at the instant of the step
ResolvedNow == _get_current_time_slot(_time_slots, now).api_type

\* C15: on a poll of the time-slot unit where resolve() returns the
\* remembered last resolved id the presented content is not recomputed and
\* every published attribute is unchanged, even if the cache entry of the
\* type was refreshed since; the content is recomputed exactly on the polls
\* where the resolved id differs from the remembered one.
C15_RecomputeOnlyOnSlotChange ==
    [][ev'.op = "slot_update" =>
          /\ ResolvedNow = _last_time_slot =>
                (_attributes' = _attributes /\ ~ev'.recomputed)
          /\ ResolvedNow # _last_time_slot => ev'.recomputed]_vars

\* C16: over any sequence of polls of the time-slot unit, polls made while
\* the cache is not ready included, the published update_time changes only
\* on a poll at which the resolved id differs from the last resolved id; on
\* every other poll it keeps its value.
C16_UpdateTimeOnlyOnTransition ==
    [][(ev'.op = "slot_update"
        /\ UpdateTimeOf(_attributes') # UpdateTimeOf(_attributes))
       => ResolvedNow # _last_time_slot]_vars

----------------------------------------------------------------------------
(* TianScrollingContentSensor: the rotation *)

\* rotation ticks logged in a run
MaxTicks == 2

\* [api for api in enabled_apis if api in SCROLL_CONTENT_TYPES]
ScrollContentTypes(apis) ==
    LET InCatalogue(a) ==
            \E i \in 1..Len(SCROLL_CONTENT_TYPES) : SCROLL_CONTENT_TYPES[i] = a
    IN  SelectSeq(apis, InCatalogue)

\* TianScrollingContentSensor._is_cache_ready
ScrollCacheReady ==
    \A i \in 1..Len(_content_types) :
        /\ _content_types[i] \in DOMAIN _data_cache
        /\ Truthy(_data_cache[_content_types[i]])
        /\ ResultTruthy(_data_cache[_content_types[i]])

\* TianScrollingContentSensor._set_default_attributes
ScrollDefaultAttributes(t, message) ==
    [title |-> "placeholder",
     content1 |-> [kind |-> "placeholder", of |-> message, result |-> ""],
     content_type |-> "unknown",
     update_time |-> _get_current_time(t),
     update_date |-> _get_current_date(t)]

\* the content types _get_content_by_type has a branch for
ScrollPresentedTypes ==
    {"joke", "poetry", "songci", "yuanqu",
     "history", "sentence", "couplet", "maxim"}

\* whether the branch of _get_content_by_type raises on a truthy result:
\* result.get(...) needs an object, list[0].get(...) an object as first
\* element; songci turns its content into a string; history, sentence,
\* couplet and maxim go through _extract_result
ScrollContentRaises(content_type, data) ==
    IF content_type \in {"history", "sentence", "couplet", "maxim"} THEN FALSE
    ELSE IF content_type = "songci" THEN data.result = "list"
    ELSE data.result # "dict"

\* TianScrollingContentSensor._get_content_by_type: None, an exception, or
\* the content (title, title2, align, subalign literals of the type;
\* subtitle, content1, content2 taken from the payload)
_get_content_by_type(content_type) ==
    IF \/ content_type \notin DOMAIN _data_cache
       \/ ~Truthy(_data_cache[content_type])
       \/ ~ResultTruthy(_data_cache[content_type])
    THEN [kind |-> "none"]
    ELSE IF content_type \notin ScrollPresentedTypes
         THEN [kind |-> "none"]
         ELSE IF ScrollContentRaises(content_type, _data_cache[content_type])
              THEN [kind |-> "raise"]
              ELSE [kind |-> "content", title |-> content_type,
                    content1 |-> [kind |-> "content", of |-> content_type,
                                  result |-> _data_cache[content_type].result]]

\* the index moved on by the length of the list, without the modulo
NextIndexPastEnd(index, length) == index + length

\* the index left where it is
NextIndexStay(index, length) == index

\* (self._current_index + 1) % len(self._content_types)
NextIndex(index, length) == (index + 1) % length

\* TianScrollingContentSensor._update_scrolling_content at instant `now`;
\* the list is indexed from 0 in the code and from 1 here
_update_scrolling_content ==
    LET u == "scrolling"
        current_date == _get_current_date(now)
    IN
    /\ _state' = [_state EXCEPT ![u] = StateDate(now)]
    /\ IF ~ScrollCacheReady
       THEN /\ _attributes' = ScrollDefaultAttributes(now, "waiting for data")
            /\ ev' = [op |-> "scroll_tick", outcome |-> "waiting",
                      content_type |-> "none"]
            /\ UNCHANGED <<_available, _current_index>>
       ELSE IF Len(_content_types) = 0
       THEN /\ _attributes' =
                   ScrollDefaultAttributes(now, "no scrolling type enabled")
            /\ ev' = [op |-> "scroll_tick", outcome |-> "empty",
                      content_type |-> "none"]
            /\ UNCHANGED <<_available, _current_index>>
       ELSE LET content_type == _content_types[_current_index + 1]
                scrolling_content == _get_content_by_type(content_type)
            IN  IF scrolling_content.kind = "raise"
                THEN /\ _available' = [_available EXCEPT ![u] = FALSE]
                     /\ ev' = [op |-> "scroll_tick", outcome |-> "raised",
                               content_type |-> content_type]
                     /\ UNCHANGED <<_attributes, _current_index>>
                ELSE IF scrolling_content.kind = "content"
                THEN /\ _available' = [_available EXCEPT ![u] = TRUE]
                     /\ _attributes' =
                            [title |-> scrolling_content.title,
                             content1 |-> scrolling_content.content1,
                             content_type |-> content_type,
                             update_time |-> _get_current_time(now),
                             update_date |-> current_date]
                     /\ _current_index' =
                            NextIndex(_current_index, Len(_content_types))
                     /\ ev' = [op |-> "scroll_tick", outcome |-> "content",
                               content_type |-> content_type]
                ELSE /\ _attributes' =
                            ScrollDefaultAttributes(now, "cannot get content")
                     /\ ev' = [op |-> "scroll_tick", outcome |-> "nocontent",
                               content_type |-> content_type]
                     /\ UNCHANGED <<_available, _current_index>>

\* the tally entry of a rotation tick (ticks at the end of scn, cache
\* stores at its front)
LogTick ==
    /\ Cardinality({j \in 1..Len(scn) : scn[j].op = "tick"}) < MaxTicks
    /\ scn' = Append(scn, [op |-> "tick"])

\* the registrations of the rotation interval in a bag of timers
ScrollTimers(B) == {t \in BagToSet(B) : t.kind = "scroll"}

\* async_track_time_interval(hass, callback, timedelta(minutes=interval))
ScrollTimer(from, interval) ==
    [unit |-> "scrolling", kind |-> "scroll", due |-> from + interval * 60,
     delay |-> interval * 60]

\* hass.async_create_task(self._update_scrolling_content(None))
ImmediateTick == [unit |-> "scrolling", trigger |-> "scroll_now",
                  current_time |-> now]

\* the new registration made without cancelling the one held
StartScrollingTimerKeepingOld(interval) ==
    /\ timers' = BagAdd(timers, ScrollTimer(now, interval))
    /\ _unsub_timer' = [isNone |-> FALSE]
    /\ tasks' = BagAdd(tasks, ImmediateTick)

\* _start_scrolling_timer with the interval `interval`: the registration
\* held in _unsub_timer is cancelled, a new one made, a tick task created
_start_scrolling_timer(interval) ==
    /\ timers' = BagAdd(IF _unsub_timer # None
                        THEN [t \in BagToSet(timers) \ ScrollTimers(timers)
                                |-> CopiesIn(t, timers)]
                        ELSE timers,
                        ScrollTimer(now, interval))
    /\ _unsub_timer' = [isNone |-> FALSE]
    /\ tasks' = BagAdd(tasks, ImmediateTick)

\* rotation intervals (minutes) of the model; the valid range is 1..60
ScrollIntervals == {1}

\* values passed to update_scroll_interval in the model: one below the
\* range 1..60, one in it, one above it
NewIntervals == {0, 2, 61}

\* configurations of the scrolling entity in the model
ScrollConfigs ==
    {<<"morning", "evening">>, <<"joke", "morning", "evening">>}

\* TianScrollingContentSensor.__init__
InitScroll ==
    /\ now = 0
    /\ sensors = {"scrolling"}
    /\ lifecycle = [u \in sensors |-> "created"]
    /\ _data_cache = EmptyDict
    /\ _cache_timestamp = EmptyDict
    /\ _state = [u \in sensors |-> StateDate(now)]
    /\ _available = [u \in sensors |-> TRUE]
    /\ _retry_count = [u \in sensors |-> 0]
    /\ timers = EmptyBag
    /\ tasks = EmptyBag
    /\ ev = [op |-> "init"]
    /\ scn = << >>
    /\ _enabled_apis \in ScrollConfigs
    /\ _time_slots = << >>
    /\ _last_time_slot = NoSlot
    /\ _last_update_time = NoTime
    /\ _attributes = EmptyDict
    /\ _content_types = ScrollContentTypes(_enabled_apis)
    /\ _current_index = 0
    /\ _scroll_interval \in ScrollIntervals
    /\ _unsub_timer = None

\* TianScrollingContentSensor.async_added_to_hass
ScrollAdded ==
    /\ lifecycle["scrolling"] = "created"
    /\ lifecycle' = [lifecycle EXCEPT !["scrolling"] = "added"]
    /\ _start_scrolling_timer(_scroll_interval)
    /\ ev' = [op |-> "added", unit |-> "scrolling"]
    /\ UNCHANGED <<now, sensors, _data_cache, _cache_timestamp, _state,
                   _available, _retry_count, scn, _enabled_apis, _time_slots,
                   _last_time_slot, _last_update_time, _attributes,
                   _content_types, _current_index, _scroll_interval>>

\* the task created by _start_scrolling_timer runs
ScrollFirstTick ==
    \E k \in BagToSet(tasks) :
        /\ k.trigger = "scroll_now"
        /\ tasks' = BagRemove(tasks, k)
        /\ _update_scrolling_content
        /\ LogTick
        /\ UNCHANGED <<now, sensors, lifecycle, _data_cache, _cache_timestamp,
                       _retry_count, timers, _enabled_apis, _time_slots,
                       _last_time_slot, _last_update_time, _content_types,
                       _scroll_interval, _unsub_timer>>

\* the interval comes due: a rotation tick, and the interval runs on
ScrollTick ==
    \E tm \in ScrollTimers(timers) :
        /\ tm.due = now
        /\ tasks = EmptyBag
        /\ timers' = BagAdd(BagRemove(timers, tm),
                            [tm EXCEPT !.due = tm.due + tm.delay])
        /\ _update_scrolling_content
        /\ LogTick
        /\ UNCHANGED <<now, sensors, lifecycle, _data_cache, _cache_timestamp,
                       _retry_count, tasks, _enabled_apis, _time_slots,
                       _last_time_slot, _last_update_time, _content_types,
                       _scroll_interval, _unsub_timer>>

\* update_scroll_interval restarting the timer on a value out of range
UpdateScrollIntervalRestarting ==
    \E new_interval \in NewIntervals :
        /\ lifecycle["scrolling"] = "added"
        /\ tasks = EmptyBag
        /\ IF 1 <= new_interval /\ new_interval <= 60
           THEN /\ _scroll_interval' = new_interval
                /\ _start_scrolling_timer(new_interval)
           ELSE /\ _start_scrolling_timer(_scroll_interval)
                /\ UNCHANGED _scroll_interval
        /\ ev' = [op |-> "interval", new_interval |-> new_interval]
        /\ UNCHANGED <<now, sensors, lifecycle, _data_cache, _cache_timestamp,
                       _state, _available, _retry_count, scn, _enabled_apis,
                       _time_slots, _last_time_slot, _last_update_time,
                       _attributes, _content_types, _current_index>>

\* TianScrollingContentSensor.update_scroll_interval
UpdateScrollInterval ==
    \E new_interval \in NewIntervals :
        /\ lifecycle["scrolling"] = "added"
        /\ tasks = EmptyBag
        /\ IF 1 <= new_interval /\ new_interval <= 60
           THEN /\ _scroll_interval' = new_interval
                /\ _start_scrolling_timer(new_interval)
           ELSE UNCHANGED <<_scroll_interval, timers, tasks, _unsub_timer>>
        /\ ev' = [op |-> "interval", new_interval |-> new_interval]
        /\ UNCHANGED <<now, sensors, lifecycle, _data_cache, _cache_timestamp,
                       _state, _available, _retry_count, scn, _enabled_apis,
                       _time_slots, _last_time_slot, _last_update_time,
                       _attributes, _content_types, _current_index>>

\* time passes up to the next tick of the interval
ScrollAdvance ==
    \E tm \in ScrollTimers(timers) :
        /\ tasks = EmptyBag
        /\ now < tm.due
        /\ now' = tm.due
        /\ ev' = [op |-> "tick"]
        /\ UNCHANGED <<sensors, lifecycle, _data_cache, _cache_timestamp,
                       _state, _available, _retry_count, timers, tasks, scn,
                       aggVars>>

NextScroll ==
    \/ ScrollAdded
    \/ ScrollFirstTick
    \/ ScrollTick
    \/ UpdateScrollInterval
    \/ CacheStored
    \/ ScrollAdvance

SpecScroll == InitScroll /\ [][NextScroll]_vars

\* a step that is a rotation tick
IsScrollTick == ev'.op = "scroll_tick"

\* the type the index points at (the list is indexed from 1 here)
CurrentType == _content_types[_current_index + 1]

\* every type of the rotation list has a cached payload with a well-formed
\* result
AllTypesCached ==
    \A i \in 1..Len(_content_types) :
        /\ _content_types[i] \in DOMAIN _data_cache
        /\ _data_cache[_content_types[i]].result = "dict"

\* the tick presents the type the index points at and moves the index on
PresentsCurrentAndAdvances ==
    /\ ev'.outcome = "content"
    /\ ev'.content_type = CurrentType
    /\ _attributes'.content_type = CurrentType
    /\ _current_index' = (_current_index + 1) % Len(_content_types)

\* C17: for any rotation list L of length n >= 1 built at setup, when every
\* type of L is cached, n consecutive ticks present L[0], ..., L[n-1] in
\* that order and tick n+1 presents L[0] again: the index starts at 0 and
\* every tick presents the type it points at and moves it on by one modulo
\* n.
C17_RotationOrder ==
    /\ []((\A j \in 1..Len(scn) : scn[j].op # "tick") => _current_index = 0)
    /\ [][(IsScrollTick /\ Len(_content_types) >= 1 /\ AllTypesCached)
            => PresentsCurrentAndAdvances]_vars

\* C18: on a rotation tick with a non-empty list, if the payload of the
\* type the index points at is in the cache, that type is presented and
\* the index becomes (index + 1) mod length, whether or not the payloads of
\* the other enabled types are cached.
C18_PresentsWhenCurrentCached ==
    [][(/\ IsScrollTick
        /\ Len(_content_types) >= 1
        /\ CurrentType \in DOMAIN _data_cache
        /\ _data_cache[CurrentType].result = "dict")
       => PresentsCurrentAndAdvances]_vars

\* the tick published a placeholder
PlaceholderPublished ==
    /\ "title" \in DOMAIN _attributes'
    /\ _attributes'.title = "placeholder"
    /\ _attributes'.content_type = "unknown"
    /\ _attributes'.update_time = _get_current_time(now)

\* the index changes only on a tick that published content, then by +1
\* modulo the length
IndexMovesOnlyWithContent ==
    /\ _current_index' # _current_index => ev'.outcome = "content"
    /\ ev'.outcome = "content" =>
          /\ ev'.content_type = CurrentType
          /\ _current_index' = (_current_index + 1) % Len(_content_types)
    /\ ev'.outcome # "content" => _current_index' = _current_index

\* C19 as stated: the index changes only on a tick that published real
\* content, then by exactly +1 modulo the length; on a tick where the
\* payload of the current type is absent or cannot be presented a
\* placeholder is published and the index is unchanged.
C19_PlaceholderWheneverNotPresented ==
    [][IsScrollTick =>
          /\ IndexMovesOnlyWithContent
          /\ (Len(_content_types) >= 1
               /\ _get_content_by_type(CurrentType).kind # "content")
              => (PlaceholderPublished /\ _current_index' = _current_index)]_vars

\* C19, amended: the index changes only on a tick that published real
\* content, then by exactly +1 modulo the length; on a tick where the
\* payload of the current type is absent or the type has no presentation a
\* placeholder is published and the index is unchanged; on a tick where
\* presenting the payload raises (every type of the list being cached) no
\* placeholder is published: the attributes keep their values, the unit
\* becomes unavailable and the index is unchanged.
C19_IndexAdvanceRule ==
    [][IsScrollTick =>
          /\ IndexMovesOnlyWithContent
          /\ (Len(_content_types) >= 1
               /\ _get_content_by_type(CurrentType).kind = "none")
              => (PlaceholderPublished /\ _current_index' = _current_index)
          /\ (Len(_content_types) >= 1
               /\ ScrollCacheReady
               /\ _get_content_by_type(CurrentType).kind = "raise")
              => /\ _attributes' = _attributes
                 /\ ~_available'["scrolling"]
                 /\ _current_index' = _current_index]_vars

\* a tick on which presenting the payload of the current type raised
C19_Witness ==
    /\ ev.op = "scroll_tick"
    /\ ev.outcome = "raised"
    /\ ev.content_type = CurrentType
    /\ ~_available["scrolling"]
    /\ _current_index = 0

----------------------------------------------------------------------------
(* The rotation with the mandatory types only *)

\* the configuration the flow stores when no optional type is selected
MandatoryOnly == _enabled_apis = <<"morning", "evening">>

\* the tick published the "nothing enabled" placeholder
NothingEnabledPublished ==
    /\ ev'.outcome = "empty"
    /\ "content1" \in DOMAIN _attributes'
    /\ _attributes'.content1 =
          [kind |-> "placeholder", of |-> "no scrolling type enabled",
           result |-> ""]

\* C21: when the enabled configuration is exactly [morning, evening], the
\* rotation list is empty and every rotation tick publishes the "nothing
\* enabled" placeholder.
C21_MandatoryOnlyShowsNothingEnabled ==
    /\ [](MandatoryOnly => Len(_content_types) = 0)
    /\ [][(IsScrollTick /\ MandatoryOnly) => NothingEnabledPublished]_vars

----------------------------------------------------------------------------
(* The rotation timer over the life of the unit *)

\* TianScrollingContentSensor.async_will_remove_from_hass: the registration
\* held in _unsub_timer is cancelled (the attribute keeps the handle)
ScrollRemoved ==
    /\ lifecycle["scrolling"] = "added"
    /\ lifecycle' = [lifecycle EXCEPT !["scrolling"] = "removed"]
    /\ timers' = IF _unsub_timer # None
                 THEN [t \in BagToSet(timers) \ ScrollTimers(timers)
                         |-> CopiesIn(t, timers)]
                 ELSE timers
    /\ ev' = [op |-> "removed", unit |-> "scrolling"]
    /\ UNCHANGED <<now, sensors, _data_cache, _cache_timestamp, _state,
                   _available, _retry_count, tasks, scn, aggVars>>

NextScrollLife ==
    \/ NextScroll
    \/ ScrollRemoved

SpecScrollLife == InitScroll /\ [][NextScrollLife]_vars

\* the number of active registrations of the rotation interval
NumScrollTimers(B) == CopiesOver(ScrollTimers(B), B)

\* a step that is update_scroll_interval with a valid interval
IsIntervalChange ==
    /\ ev'.op = "interval"
    /\ 1 <= ev'.new_interval
    /\ ev'.new_interval <= 60

\* C22: after update_scroll_interval(n) with 1 <= n <= 60 the registration
\* made before is gone, the only registration is the new one with interval
\* n (minutes) counted from the instant of the call, and one rotation tick
\* has been created to run immediately; in every reachable state, after
\* any sequence of add, interval changes and removal, the unit has at most
\* one active rotation timer (none once removed).
C22_OneRotationTimer ==
    /\ [](NumScrollTimers(timers) <= 1)
    /\ [](lifecycle["scrolling"] = "removed" => NumScrollTimers(timers) = 0)
    /\ [][IsIntervalChange =>
            /\ _scroll_interval' = ev'.new_interval
            /\ ScrollTimers(timers') =
                  {[unit |-> "scrolling", kind |-> "scroll",
                    due |-> now + ev'.new_interval * 60,
                    delay |-> ev'.new_interval * 60]}
            /\ NumScrollTimers(timers') = 1
            /\ CopiesIn(ImmediateTick, tasks') =
                  CopiesIn(ImmediateTick, tasks) + 1]_vars

\* the interval was changed to 2 minutes while the 1 minute registration
\* made at an earlier instant was active
C22_Witness ==
    /\ ev.op = "interval"
    /\ ev.new_interval = 2
    /\ now >= 60
    /\ _scroll_interval = 2
    /\ ScrollTimers(timers) =
          {[unit |-> "scrolling", kind |-> "scroll", due |-> now + 120,
            delay |-> 120]}
    /\ CopiesIn(ImmediateTick, tasks) = 1

----------------------------------------------------------------------------
(* Overlapping refreshes of one key: the system set up at 00:01:00, so that *)
(* the platform's poll and the daily timer of an entity come due at the     *)
(* same instant of the next day.  scn holds the completions of the fetches  *)
(* that overlap, in the order of their completion.                          *)

\* the instant of the set-up: 00:01:00
OverlapStartTimes == {DAILY_SECOND}

\* the entities taken: one whose update has the retry branch, one without
OverlapUnits == {"joke", "evening"}

InitOverlap ==
    /\ now \in OverlapStartTimes
    /\ \E u \in OverlapUnits : sensors = {u}
    /\ lifecycle = [u \in sensors |-> "created"]
    /\ _data_cache = EmptyDict
    /\ _cache_timestamp = EmptyDict
    /\ _state = [u \in sensors |-> StateWaiting]
    /\ _available = [u \in sensors |-> TRUE]
    /\ _retry_count = [u \in sensors |-> 0]
    /\ timers = EmptyBag
    /\ tasks = EmptyBag
    /\ ev = [op |-> "init"]
    /\ scn = << >>
    /\ NoAggregates

\* the completion of a fetch, logged when a fetch for the same key is
\* still under way or was when the completion before was logged
LogCompletion(task, data) ==
    LET open == \E k \in BagToSet(BagRemove(tasks, task)) :
                    CacheKey(k.unit) = CacheKey(task.unit)
        base == IF scn # << >> /\ scn[Len(scn)].open THEN scn ELSE << >>
    IN  scn' = IF open \/ base # << >>
               THEN Append(base, [key |-> CacheKey(task.unit),
                                  trigger |-> task.trigger,
                                  current_time |-> task.current_time,
                                  end |-> now,
                                  data |-> data,
                                  stored |-> Storable(data),
                                  open |-> open])
               ELSE << >>

OverlapFetchReturn ==
    \E task \in BagToSet(tasks) : \E resp \in Responses :
        /\ Return(task, resp)
        /\ LogCompletion(task, _fetch_api_data(resp))
        /\ UNCHANGED aggVars

NextOverlap ==
    \/ SetupUpdate
    \/ AddedToHass
    \/ Poll
    \/ FireRetry
    \/ FireDaily
    \/ OverlapFetchReturn
    \/ Tick

SpecOverlap == InitOverlap /\ [][NextOverlap]_vars

\* the completions logged in scn that stored an entry
StoredCompletions == {j \in 1..Len(scn) : scn[j].stored}

\* the last of them
LastStored == CHOOSE j \in StoredCompletions :
                  \A i \in StoredCompletions : i <= j

\* the cache holds the payload and the timestamp written by the last of the
\* overlapping calls that stored
LastWriterWins ==
    StoredCompletions # {} =>
        LET w == scn[LastStored] IN
        /\ w.key \in DOMAIN _data_cache
        /\ w.key \in DOMAIN _cache_timestamp
        /\ _data_cache[w.key] = w.data
        /\ _cache_timestamp[w.key] = w.current_time

\* a trigger that finds the key stale issues a fetch of its own, whether or
\* not a fetch for the key is under way
EachTriggerFetches ==
    (ev'.op = "update" /\ ev'.phase = "fetch") =>
        /\ ~CacheFresh(CacheKey(ev'.unit), now)
        /\ tasks' = BagAdd(tasks, [unit |-> ev'.unit,
                                   trigger |-> ev'.trigger,
                                   current_time |-> now])

\* a completion leaves the entry alone or writes its payload and its
\* timestamp in the same step
EachStoreWritesPair ==
    ev'.op = "return" =>
        LET key == CacheKey(ev'.unit) IN
        IF Storable(ev'.data)
        THEN /\ _data_cache' = DictSet(_data_cache, key, ev'.data)
             /\ _cache_timestamp' =
                   DictSet(_cache_timestamp, key, ev'.current_time)
        ELSE UNCHANGED <<_data_cache, _cache_timestamp>>

\* C23: when two triggers overlap on the same stale key each issues its
\* own fetch (no de-duplication), each successful one writes payload and
\* timestamp together, and once the overlapping fetches have completed the
\* cache holds the whole (payload, timestamp) pair of the one that stored
\* last, never the payload of one with the timestamp of the other.
C23_LastWriterWins ==
    /\ []LastWriterWins
    /\ [][EachTriggerFetches /\ EachStoreWritesPair]_vars

\* two overlapping fetches of a key have both completed and both stored,
\* with different payloads
C23_Witness ==
    /\ Len(scn) = 2
    /\ ~scn[2].open
    /\ scn[1].stored /\ scn[2].stored
    /\ scn[1].trigger # scn[2].trigger
    /\ scn[1].data # scn[2].data
    /\ scn[2].current_time <= scn[1].end
    /\ tasks = EmptyBag
    /\ _data_cache[scn[2].key] = scn[2].data

----------------------------------------------------------------------------
(* The three kinds of entity side by side: a per-type entity set up at      *)
(* 00:01:00, the time-slot entity, the scrolling entity                     *)

InitFault == InitOverlap \/ InitSlot \/ InitScroll

NextFault ==
    \/ (sensors \subseteq ContentTypes /\ Next)
    \/ (sensors = {"time_slot"} /\ NextSlot)
    \/ (sensors = {"scrolling"} /\ NextScroll)

SpecFault == InitFault /\ [][NextFault]_vars

\* the last step was the end of a per-type update whose presentation of
\* the payload raised
PerTypeFault ==
    /\ ev.op \in {"update", "return"}
    /\ Truthy(ev.data)
    /\ PresentationRaises(ev.unit, ev.data)

\* the platform's polling of the entity is registered
PollPending(u) ==
    \E t \in BagToSet(timers) : t.unit = u /\ t.kind = "poll"

\* a per-type update that raised leaves the entity unavailable, polled,
\* and with its daily timer pending or running
PerTypeFaultContained ==
    PerTypeFault =>
        /\ ~_available[ev.unit]
        /\ _state[ev.unit] = StateUpdateFailed \/ ~HasRetryBranch(ev.unit)
        /\ lifecycle[ev.unit] = "added" =>
              (PollPending(ev.unit) /\ NumDaily(ev.unit) = 1)

\* a time-slot update that raised leaves the entity unavailable
SlotFaultContained ==
    (ev.op = "slot_update" /\ ev.raised) => ~_available["time_slot"]

\* a rotation tick that raised leaves the entity unavailable and its
\* interval registered
ScrollFaultContained ==
    (ev.op = "scroll_tick" /\ ev.outcome = "raised") =>
        /\ ~_available["scrolling"]
        /\ NumScrollTimers(timers) = 1

\* C24: for every entity (per-type, time-slot, rotation) and every payload
\* shape, malformed ones included, an update whose presentation raises
\* ends inside the routine: the entity is unavailable afterwards and its
\* scheduling (platform polls, daily timer, rotation interval) goes on.
C24_FaultContainment ==
    PerTypeFaultContained /\ SlotFaultContained /\ ScrollFaultContained

\* the update run by the daily timer raised on a malformed payload, and
\* the timer is armed for the next day
C24_Witness ==
    /\ ev.op = "return"
    /\ ev.trigger = "daily"
    /\ PerTypeFault
    /\ ~_available[ev.unit]
    /\ lifecycle[ev.unit] = "added"
    /\ NumDaily(ev.unit) = 1
    /\ PollPending(ev.unit)

----------------------------------------------------------------------------
(* A rate-limited refresh seen from the entity *)

\* the step is the return of a fetch answered with application code 130
IsRateLimitedReturn ==
    /\ ev'.op = "return"
    /\ ev'.resp.exc = "none"
    /\ ev'.resp.status = HTTP_OK
    /\ ev'.resp.code = CODE_RATE_LIMITED

\* the entity displays the value of a successful update: a date, available,
\* its payload in the cache
ShowsSuccessfulUpdate(u) ==
    /\ CacheKey(u) \in DOMAIN _data_cache
    /\ _available[u]
    /\ _state[u] \notin {StateWaiting, StateApiFailed, StateUpdateFailed}

\* C25: when the refresh of an entity receives application code 130 the
\* fetch returns no payload, the cache entry is unchanged, and the value
\* the entity displays stays the one of its last successful update; only
\* an entity that never had a successful update shows the failure marker.
C25_RateLimitedKeepsLastValue ==
    [][IsRateLimitedReturn =>
          /\ ev'.data = None
          /\ UNCHANGED <<_data_cache, _cache_timestamp>>
          /\ ShowsSuccessfulUpdate(ev'.unit) =>
                /\ _state'[ev'.unit] = _state[ev'.unit]
                /\ _available'[ev'.unit] = _available[ev'.unit]
          /\ _state'[ev'.unit] = StateApiFailed =>
                CacheKey(ev'.unit) \notin DOMAIN _data_cache]_vars

----------------------------------------------------------------------------
(* The greeting texts.  A text is a sequence of characters; the characters  *)
(* of the model are those of the two markers, "！" (written "!") and two   *)
(* others.                                                                 *)

\* length of the fetched texts of the model
MaxLen == 3

Chars == {"zao", "an", "wan", "!", "x"}

\* the texts of length n
TextsOfLen(n) == [1..n -> Chars]

\* the fetched texts: every text of at most MaxLen characters
Texts == UNION {TextsOfLen(n) : n \in 0..MaxLen}

\* "早安" and "晚安"
MorningMarker == <<"zao", "an">>

EveningMarker == <<"wan", "an">>

\* "早安！新的一天开始了！" and "晚安！好梦！"
MorningDefault == <<"zao", "an", "!", "x", "x", "x", "!">>

EveningDefault == <<"wan", "an", "!", "x", "x", "!">>

\* Python's `marker in text`
Contains(text, marker) ==
    \E i \in 1..(Len(text) - Len(marker) + 1) :
        SubSeq(text, i, i + Len(marker) - 1) = marker

\* the prefix put after the text instead of before it
MorningUnitContentSuffixing(text) ==
    IF text = << >> THEN MorningDefault
    ELSE IF ~Contains(text, MorningMarker)
         THEN text \o MorningMarker \o <<"!">>
         ELSE text

\* TianMorningSensor.async_update, the content attribute
MorningUnitContent(text) ==
    IF text = << >> THEN MorningDefault
    ELSE IF ~Contains(text, MorningMarker)
         THEN MorningMarker \o <<"!">> \o text
         ELSE text

\* TianEveningSensor.async_update, the content attribute
EveningUnitContent(text) ==
    IF text = << >> THEN EveningDefault
    ELSE IF ~Contains(text, EveningMarker)
         THEN text \o EveningMarker \o <<"!">>
         ELSE text

\* _get_time_slot_content, branch "morning": content1 and content2
MorningSlotContent(text) ==
    IF ~Contains(text, MorningMarker)
    THEN MorningMarker \o <<"!">> \o text
    ELSE text

\* _get_time_slot_content, branch "evening": content1 and content2
EveningSlotContent(text) ==
    IF ~Contains(text, EveningMarker)
    THEN text \o EveningMarker \o <<"!">>
    ELSE text

\* no entity, no timer, no cache: the state around a presenter taken alone
NoSystem ==
    /\ now = 0
    /\ sensors = {}
    /\ lifecycle = EmptyDict
    /\ _data_cache = EmptyDict
    /\ _cache_timestamp = EmptyDict
    /\ _state = EmptyDict
    /\ _available = EmptyDict
    /\ _retry_count = EmptyDict
    /\ timers = EmptyBag
    /\ tasks = EmptyBag
    /\ scn = << >>
    /\ NoAggregates

\* a greeting payload whose result.content is any text of the model
InitGreeting ==
    /\ NoSystem
    /\ \E api_type \in {"morning", "evening"} : \E text \in Texts :
          ev = [op |-> "fetched", api_type |-> api_type, text |-> text]

\* the per-type entity and the time-slot presenter present the payload
PresentGreeting ==
    /\ ev.op = "fetched"
    /\ ev' = [op |-> "presented", api_type |-> ev.api_type, text |-> ev.text,
              unit |-> IF ev.api_type = "morning"
                       THEN MorningUnitContent(ev.text)
                       ELSE EveningUnitContent(ev.text),
              slot |-> IF ev.api_type = "morning"
                       THEN MorningSlotContent(ev.text)
                       ELSE EveningSlotContent(ev.text)]
    /\ UNCHANGED <<now, sensors, lifecycle, _data_cache, _cache_timestamp,
                   _state, _available, _retry_count, timers, tasks, scn,
                   aggVars>>

NextGreeting == PresentGreeting

SpecGreeting == InitGreeting /\ [][NextGreeting]_vars

\* the marker of a greeting type
MarkerOf(api_type) ==
    IF api_type = "morning" THEN MorningMarker ELSE EveningMarker

\* the text with the marker phrase put before it (morning) or after it
\* (evening)
WithMarker(api_type, text) ==
    IF api_type = "morning" THEN MorningMarker \o <<"!">> \o text
    ELSE text \o EveningMarker \o <<"!">>

\* what the claim gives for a text: the text itself when it contains the
\* marker, the text with the marker phrase otherwise
Marked(api_type, text) ==
    IF Contains(text, MarkerOf(api_type)) THEN text
    ELSE WithMarker(api_type, text)

\* C26 as stated: for every fetched text the presented greeting contains
\* the marker; a text containing it is presented unchanged, a morning text
\* lacking it is prefixed with "早安！", an evening text lacking it is
\* suffixed with "晚安！", in the per-type unit and in the time-slot
\* presenter alike.
C26_MarkerAddedToEveryText ==
    ev.op = "presented" =>
        /\ Contains(ev.unit, MarkerOf(ev.api_type))
        /\ Contains(ev.slot, MarkerOf(ev.api_type))
        /\ ev.unit = Marked(ev.api_type, ev.text)
        /\ ev.slot = Marked(ev.api_type, ev.text)

\* C26, amended: the presented greeting always contains the marker; a text
\* containing it is presented unchanged; a non-empty text lacking it is
\* prefixed (morning) or suffixed (evening) with the marker phrase in both
\* presenters; an empty text is replaced by the default greeting in the
\* per-type unit and becomes the bare marker phrase in the time-slot
\* presenter.
C26_GreetingMarker ==
    ev.op = "presented" =>
        /\ Contains(ev.unit, MarkerOf(ev.api_type))
        /\ Contains(ev.slot, MarkerOf(ev.api_type))
        /\ ev.slot = Marked(ev.api_type, ev.text)
        /\ ev.text # << >> => ev.unit = Marked(ev.api_type, ev.text)
        /\ ev.text = << >> =>
              /\ ev.unit = IF ev.api_type = "morning"
                           THEN MorningDefault ELSE EveningDefault
              /\ ev.slot = MarkerOf(ev.api_type) \o <<"!">>

\* the empty evening text: the default greeting in the unit, the bare
\* marker phrase in the time-slot presenter
C26_Witness ==
    /\ ev.op = "presented"
    /\ ev.api_type = "evening"
    /\ ev.text = << >>
    /\ ev.unit = EveningDefault
    /\ ev.slot = <<"wan", "an", "!">>

----------------------------------------------------------------------------
(* The presenters, field by field.  A JSON object is a function from its    *)
(* member names to values; a presented text is a sequence of parts, each a  *)
(* literal of the code, a default text of the code, or a value of the       *)
(* payload.                                                                *)

\* elements of a payload's list in the model
MaxList == 2

\* the member values of the model
Values == {"a", "b"}

\* the types whose payload carries its fields in result.list[0]
ListTypes == {"joke", "poetry", "yuanqu"}

\* the members a presenter reads, per type
ElementFields(api_type) ==
    CASE api_type = "joke" -> {"title", "content"}
      [] api_type \in {"poetry", "yuanqu"} -> {"author", "title", "content"}
      [] api_type \in {"songci", "sentence"} -> {"source", "content"}
      [] api_type = "maxim" -> {"en", "zh"}
      [] OTHER -> {"content"}

\* the JSON objects holding some of the members of a type
Records(api_type) ==
    UNION {[K -> Values] : K \in SUBSET ElementFields(api_type)}

\* the JSON object {}
EmptyRecord == [k \in {} |-> "a"]

\* the sequences of at most MaxList elements of S
ListsOf(S) == UNION {[1..n -> S] : n \in 0..MaxList}

\* the `result` members of the model, per type:
\*   form "absent" - the payload has no result member
\*   form "object" - an object with the members `members`, with a member
\*                   `list` if haslist, with an unrelated member if other
\*   form "array"  - a list of objects
ResultsOf(api_type) ==
    {[form |-> "absent", members |-> EmptyRecord, haslist |-> FALSE,
      list |-> << >>, other |-> FALSE]}
    \cup
    (IF api_type \in ListTypes
     THEN {[form |-> "object", members |-> EmptyRecord, haslist |-> FALSE,
            list |-> << >>, other |-> o] : o \in BOOLEAN}
          \cup
          {[form |-> "object", members |-> EmptyRecord, haslist |-> TRUE,
            list |-> l, other |-> FALSE] : l \in ListsOf(Records(api_type))}
     ELSE {[form |-> "object", members |-> m, haslist |-> FALSE,
            list |-> << >>, other |-> o] :
               m \in Records(api_type), o \in BOOLEAN})
    \cup
    (IF api_type \in ExtractResultTypes
     THEN {[form |-> "array", members |-> EmptyRecord, haslist |-> FALSE,
            list |-> l, other |-> FALSE] : l \in ListsOf(Records(api_type))}
     ELSE {})

\* Python truthiness of a result member
ResultIsTruthy(result) ==
    CASE result.form = "absent" -> FALSE
      [] result.form = "array" -> result.list # << >>
      [] OTHER -> \/ DOMAIN result.members # {}
                  \/ result.haslist
                  \/ result.other

\* a literal of the code
Lit(api_type, name) ==
    [src |-> "literal", of |-> <<api_type, name>>, val |-> "", fmt |-> "raw"]

\* record.get(field, default): the member's value in the format fmt, or
\* the default text of the code (no default text holds a "。", "？" or
\* "！" that _format_line_breaks or _format_plain_breaks would break at,
\* but for the greetings', which are left as they are)
Get(api_type, record, field, fmt) ==
    IF field \in DOMAIN record
    THEN [src |-> "payload", of |-> <<api_type, field>>,
          val |-> record[field], fmt |-> fmt]
    ELSE [src |-> "fallback", of |-> <<api_type, field>>, val |-> "",
          fmt |-> "raw"]

\* the members that make the subtitle of a type
SubtitleFields(api_type) ==
    CASE api_type = "joke" -> <<"title">>
      [] api_type \in {"poetry", "yuanqu"} -> <<"author", "title">>
      [] api_type \in {"songci", "sentence"} -> <<"source">>
      [] OTHER -> << >>

\* the members that make the content of a type
ContentFields(api_type) ==
    IF api_type = "maxim" THEN <<"en", "zh">> ELSE <<"content">>

\* the types whose content goes through _format_line_breaks (content1) and
\* _format_plain_breaks (content2)
FormattedTypes == {"poetry", "songci", "yuanqu", "sentence"}

\* the format of the content of a type in content1 and in content2
ContentFmt(api_type, html) ==
    CASE api_type \in FormattedTypes -> IF html THEN "html" ELSE "plain"
      [] api_type \in {"morning", "evening"} -> "marked"
      [] OTHER -> "raw"

\* the parts read from a record for a sequence of members
Parts(api_type, record, fields, fmt) ==
    [i \in 1..Len(fields) |-> Get(api_type, record, fields[i], fmt)]

\* the dictionary a presenter returns for a type, read from `record`
Presented(api_type, record) ==
    [kind |-> "content",
     title |-> <<Lit(api_type, "title")>>,
     title2 |-> <<Lit(api_type, "title2")>>,
     subtitle |-> Parts(api_type, record, SubtitleFields(api_type), "raw"),
     content1 |-> Parts(api_type, record, ContentFields(api_type),
                        ContentFmt(api_type, TRUE)),
     content2 |-> Parts(api_type, record, SubtitleFields(api_type), "raw")
                  \o Parts(api_type, record, ContentFields(api_type),
                           ContentFmt(api_type, FALSE)),
     align |-> <<Lit(api_type, "align")>>,
     subalign |-> <<Lit(api_type, "subalign")>>]

\* a presenter's `return None`
NothingPresented == [kind |-> "none"]

\* x.get("list", [{}]) followed by `list[0] if list else {}`
FirstOfList(result) ==
    LET list == IF result.haslist THEN result.list ELSE <<EmptyRecord>>
    IN  IF list # << >> THEN list[1] ELSE EmptyRecord

\* TianScrollingContentSensor._extract_result, handed the result member:
\* an object gives itself, a list its first element ({} when empty),
\* anything else {}
_extract_result(result) ==
    CASE result.form = "object" -> result.members
      [] result.form = "array" ->
            IF result.list # << >> THEN result.list[1] ELSE EmptyRecord
      [] OTHER -> EmptyRecord

\* TianTimeSlotContentSensor._extract_result, handed the payload: it takes
\* data.get("result", {}) itself; a list gives its first element ({} when
\* empty), an object itself, anything else {}
SlotExtractResult(data) ==
    CASE data.result.form = "array" ->
            IF data.result.list # << >> THEN data.result.list[1]
            ELSE EmptyRecord
      [] data.result.form = "object" -> data.result.members
      [] OTHER -> EmptyRecord

\* TianTimeSlotContentSensor._get_time_slot_content, field by field
SlotPresent(api_type, data) ==
    LET result == data.result IN
    CASE api_type \in ListTypes -> Presented(api_type, FirstOfList(result))
      [] api_type \in ExtractResultTypes ->
            Presented(api_type, SlotExtractResult(data))
      [] OTHER -> Presented(api_type, result.members)

\* TianScrollingContentSensor._get_content_by_type, field by field, on the
\* payload the cache holds for the type
ScrollPresent(content_type, data) ==
    LET result == data.result IN
    IF ~ResultIsTruthy(result) THEN NothingPresented
    ELSE CASE content_type \in ListTypes ->
                 Presented(content_type, FirstOfList(result))
           [] content_type = "songci" ->
                 Presented(content_type, result.members)
           [] content_type \in ExtractResultTypes ->
                 Presented(content_type, _extract_result(result))
           [] OTHER -> NothingPresented

\* the joke read from the last element of the list
JokeUnitAttributesOfLast(data) ==
    LET joke_list == IF data.result.haslist THEN data.result.list ELSE << >>
        joke_result == IF joke_list # << >> THEN joke_list[Len(joke_list)]
                       ELSE EmptyRecord
    IN  [kind |-> "content",
         title |-> Lit("joke", "unit_title"),
         code |-> data.code,
         name |-> Get("joke", joke_result, "title", "raw"),
         content |-> Get("joke", joke_result, "content", "raw")]

\* TianJokeSensor.async_update, the attributes published for a payload
\* (update_time and update_date left out): the list defaults to [], the
\* joke to {}, its title and content to ""
JokeUnitAttributes(data) ==
    LET joke_list == IF data.result.haslist THEN data.result.list ELSE << >>
        joke_result == IF joke_list # << >> THEN joke_list[1]
                       ELSE EmptyRecord
    IN  [kind |-> "content",
         title |-> Lit("joke", "unit_title"),
         code |-> data.code,
         name |-> Get("joke", joke_result, "title", "raw"),
         content |-> Get("joke", joke_result, "content", "raw")]

\* a code-200 payload of any type with any result of the model
InitPresent ==
    /\ NoSystem
    /\ \E api_type \in ContentTypes : \E result \in ResultsOf(api_type) :
          ev = [op |-> "fetched", api_type |-> api_type,
                data |-> [code |-> CODE_OK, result |-> result]]

\* the two presenters, and the joke entity, applied to the payload
Present ==
    /\ ev.op = "fetched"
    /\ ev' = [op |-> "presented", api_type |-> ev.api_type, data |-> ev.data,
              slot |-> SlotPresent(ev.api_type, ev.data),
              scroll |-> ScrollPresent(ev.api_type, ev.data),
              unit |-> IF ev.api_type = "joke"
                       THEN JokeUnitAttributes(ev.data)
                       ELSE NothingPresented]
    /\ UNCHANGED <<now, sensors, lifecycle, _data_cache, _cache_timestamp,
                   _state, _available, _retry_count, timers, tasks, scn,
                   aggVars>>

NextPresent == Present

SpecPresent == InitPresent /\ [][NextPresent]_vars

\* the object in which the payload of a type carries its fields:
\* result.list[0] for the list types, result (or its first element) for
\* the others; {} when there is none
FieldsRecord(api_type, data) ==
    IF api_type \in ListTypes
    THEN IF data.result.haslist /\ data.result.list # << >>
         THEN data.result.list[1] ELSE EmptyRecord
    ELSE _extract_result(data.result)

\* the expected fields the payload lacks
MissingFields(api_type, data) ==
    ElementFields(api_type) \ DOMAIN FieldsRecord(api_type, data)

\* the parts of a presented dictionary made from the member `field`
PartsOf(out, api_type, field) ==
    {<<name, i>> \in {"subtitle", "content1", "content2"} \X (1..3) :
        /\ i <= Len(out[name])
        /\ out[name][i].of = <<api_type, field>>}

\* the presenter returned a dictionary in which every part made from a
\* missing field is the default text of the code
FallbacksPresented(out, api_type, data) ==
    /\ out.kind = "content"
    /\ \A field \in MissingFields(api_type, data) :
          /\ PartsOf(out, api_type, field) # {}
          /\ \A q \in PartsOf(out, api_type, field) :
                out[q[1]][q[2]].src = "fallback"

\* C27: for every content type, the time-slot presenter and the rotation
\* presenter applied to a payload in which an expected field is missing
\* (absent key, empty list) return the literal default text for that
\* field, and every presented field (title, title2, subtitle, content1,
\* content2, align, subalign) is there.
C27_PresenterFallbacks ==
    (ev.op = "presented" /\ MissingFields(ev.api_type, ev.data) # {}) =>
        /\ FallbacksPresented(ev.slot, ev.api_type, ev.data)
        /\ FallbacksPresented(ev.scroll, ev.api_type, ev.data)

\* a presented joke payload whose result.list is not empty
JokeWithList ==
    /\ ev.op = "presented"
    /\ ev.api_type = "joke"
    /\ ev.data.result.haslist
    /\ ev.data.result.list # << >>

\* the attribute is the member `field` of the first element of the list
IsFirstElements(attr, field) ==
    LET first == ev.data.result.list[1] IN
    field \in DOMAIN first =>
        (attr.src = "payload" /\ attr.val = first[field])

\* C28: for every Success joke payload whose result.list is not empty the
\* joke unit publishes title = "每日笑话", name = the title of the first
\* element of the list, content = the content of the first element and
\* code = the payload's code.
C28_JokeUnitAttributes ==
    JokeWithList =>
        /\ ev.unit.title = Lit("joke", "unit_title")
        /\ ev.unit.code = ev.data.code
        /\ ev.unit.code = CODE_OK
        /\ IsFirstElements(ev.unit.name, "title")
        /\ IsFirstElements(ev.unit.content, "content")

\* a list of two jokes with different titles and contents: the first one
\* is published
C28_Witness ==
    /\ JokeWithList
    /\ Len(ev.data.result.list) = 2
    /\ DOMAIN ev.data.result.list[1] = {"title", "content"}
    /\ DOMAIN ev.data.result.list[2] = {"title", "content"}
    /\ ev.data.result.list[1].title # ev.data.result.list[2].title
    /\ ev.data.result.list[1].content # ev.data.result.list[2].content
    /\ ev.unit.name.val = ev.data.result.list[1].title
    /\ ev.unit.content.val = ev.data.result.list[1].content

----------------------------------------------------------------------------
(* The configuration forms *)

\* what a form of the flow can be submitted with: any selection of the
\* optional types (in catalogue order or in the reverse order), an API key
\* of 32 characters or of another length
Selections ==
    {InCatalogueOrder(S) : S \in SUBSET (ContentTypes \ {"morning", "evening"})}
    \cup
    {Reverse(InCatalogueOrder(S)) :
        S \in SUBSET (ContentTypes \ {"morning", "evening"})}

\* whether a is an element of the list q
InList(a, q) == \E i \in 1..Len(q) : q[i] = a

\* if a not in q: q.append(a)
AppendIfAbsent(q, a) == IF InList(a, q) THEN q ELSE Append(q, a)

\* TianConfigFlow.async_step_user with a user_input: the entry created
\* (its data), or the form shown again with an error
async_step_user(api_key_ok, enabled_apis) ==
    IF api_key_ok
    THEN [created |-> TRUE, store |-> "data",
          enabled_apis |->
              AppendIfAbsent(AppendIfAbsent(enabled_apis, "morning"),
                             "evening")]
    ELSE [created |-> FALSE, store |-> "none", enabled_apis |-> << >>]

\* TianOptionsFlow.async_step_init with a user_input: the entry created
\* with data=user_input (the options of the config entry)
async_step_init(enabled_apis) ==
    [created |-> TRUE, store |-> "options", enabled_apis |-> enabled_apis]

InitConfig ==
    /\ NoSystem
    /\ \E step \in {"user", "init"} : \E ok \in BOOLEAN :
       \E selection \in Selections :
          ev = [op |-> "form", step |-> step, api_key_ok |-> ok,
                selection |-> selection]

\* the initial form is submitted
SubmitUser ==
    /\ ev.op = "form"
    /\ ev.step = "user"
    /\ ev' = [op |-> "submitted", step |-> ev.step,
              api_key_ok |-> ev.api_key_ok, selection |-> ev.selection,
              entry |-> async_step_user(ev.api_key_ok, ev.selection)]
    /\ UNCHANGED <<now, sensors, lifecycle, _data_cache, _cache_timestamp,
                   _state, _available, _retry_count, timers, tasks, scn,
                   aggVars>>

\* the options form is submitted
SubmitOptions ==
    /\ ev.op = "form"
    /\ ev.step = "init"
    /\ ev' = [op |-> "submitted", step |-> ev.step,
              api_key_ok |-> ev.api_key_ok, selection |-> ev.selection,
              entry |-> async_step_init(ev.selection)]
    /\ UNCHANGED <<now, sensors, lifecycle, _data_cache, _cache_timestamp,
                   _state, _available, _retry_count, timers, tasks, scn,
                   aggVars>>

NextConfig == SubmitUser \/ SubmitOptions

SpecConfig == InitConfig /\ [][NextConfig]_vars

\* C29: after any configuration submission that is accepted, of the
\* initial form or of the options form, with any selection of optional
\* types, the enabled-type list that results contains both morning and
\* evening.
C29_MandatoryTypesIncluded ==
    (ev.op = "submitted" /\ ev.entry.created) =>
        /\ InList("morning", ev.entry.enabled_apis)
        /\ InList("evening", ev.entry.enabled_apis)

----------------------------------------------------------------------------
(* The rotation for ever: the scrolling entity added, its interval          *)
(* registered, ticks without end.  The clock is left out (every tick is at  *)
(* the instant 0), so that the states are finitely many.                    *)

\* configurations of the model: any selection among three optional types,
\* then morning and evening
LiveConfigs ==
    {InCatalogueOrder(S) \o MandatoryTypes :
        S \in SUBSET {"joke", "poetry", "history"}}

\* the payload the per-type entities store: well-formed
LivePayload == [code |-> CODE_OK, result |-> "dict"]

InitScrollLive ==
    /\ now = 0
    /\ sensors = {"scrolling"}
    /\ lifecycle = [u \in sensors |-> "added"]
    /\ _data_cache = EmptyDict
    /\ _cache_timestamp = EmptyDict
    /\ _state = [u \in sensors |-> StateDate(now)]
    /\ _available = [u \in sensors |-> TRUE]
    /\ _retry_count = [u \in sensors |-> 0]
    /\ tasks = EmptyBag
    /\ ev = [op |-> "init"]
    /\ scn = << >>
    /\ _enabled_apis \in LiveConfigs
    /\ _time_slots = << >>
    /\ _last_time_slot = NoSlot
    /\ _last_update_time = NoTime
    /\ _attributes = EmptyDict
    /\ _content_types = ScrollContentTypes(_enabled_apis)
    /\ _current_index = 0
    /\ _scroll_interval \in ScrollIntervals
    /\ timers = SetToBag({ScrollTimer(now, _scroll_interval)})
    /\ _unsub_timer = [isNone |-> FALSE]

\* a per-type entity stores the payload of an enabled type not cached yet;
\* the entry stays
LiveStore ==
    \E i \in 1..Len(_enabled_apis) :
        /\ CacheKey(_enabled_apis[i]) \notin DOMAIN _data_cache
        /\ _data_cache' = StoreData(CacheKey(_enabled_apis[i]), LivePayload)
        /\ _cache_timestamp' =
              StoreTimestamp(CacheKey(_enabled_apis[i]), now)
        /\ ev' = [op |-> "store"]
        /\ UNCHANGED <<now, sensors, lifecycle, _state, _available,
                       _retry_count, timers, tasks, scn, aggVars>>

\* the interval fires: a rotation tick
LiveTick ==
    /\ ScrollTimers(timers) # {}
    /\ _update_scrolling_content
    /\ UNCHANGED <<now, sensors, lifecycle, _data_cache, _cache_timestamp,
                   _retry_count, timers, tasks, scn, _enabled_apis,
                   _time_slots, _last_time_slot, _last_update_time,
                   _content_types, _scroll_interval, _unsub_timer>>

NextScrollLive == LiveStore \/ LiveTick

\* the interval keeps firing
SpecScrollLive ==
    InitScrollLive /\ [][NextScrollLive]_vars /\ WF_vars(LiveTick)

\* the last tick presented the type a
PresentedNow(a) ==
    /\ ev.op = "scroll_tick"
    /\ ev.outcome = "content"
    /\ ev.content_type = a

\* C30: for every rotation list built from an enabled-type configuration,
\* if all enabled types stay cached and the ticks keep occurring, every
\* type of the list is presented again and again: the index is never
\* stuck on one position for ever.
C30_RotationLiveness ==
    \A a \in ContentTypes :
        <>[]AllTypesCached =>
            []<>(InList(a, _content_types) => PresentedNow(a))

----------------------------------------------------------------------------
(* The rotation list built by TianScrollingContentSensor.__init__ *)

\* a type the rotation is meant to hold: a member of the catalogue
RotationEligible(a) ==
    \E i \in 1..Len(SCROLL_CONTENT_TYPES) : SCROLL_CONTENT_TYPES[i] = a

\* C31: the rotation list is the enabled list restricted to the
\* rotation-eligible types, in the order of the enabled list, and it holds
\* neither the morning nor the evening greeting type.
C31_RotationListConstruction ==
    sensors = {"scrolling"} =>
        /\ _content_types = SelectSeq(_enabled_apis, RotationEligible)
        /\ \A i \in 1..Len(_content_types) : ~IsMandatory(_content_types[i])

----------------------------------------------------------------------------
(* The retry chain under interleaving: an entity with the retry branch set  *)
(* up at 00:01:00, whose poll, daily timer and retry callbacks may have     *)
(* their fetches under way together.  scn counts the retry registrations    *)
(* made since the entity's last successful update.                          *)

\* the entities taken: the two whose update has the retry branch
RetryUnits == {u \in ContentTypes : HasRetryBranch(u)}

InitRetry ==
    /\ now \in OverlapStartTimes
    /\ \E u \in RetryUnits : sensors = {u}
    /\ lifecycle = [u \in sensors |-> "created"]
    /\ _data_cache = EmptyDict
    /\ _cache_timestamp = EmptyDict
    /\ _state = [u \in sensors |-> StateWaiting]
    /\ _available = [u \in sensors |-> TRUE]
    /\ _retry_count = [u \in sensors |-> 0]
    /\ timers = EmptyBag
    /\ tasks = EmptyBag
    /\ ev = [op |-> "init"]
    /\ scn = 0
    /\ NoAggregates

\* the step ends an update of u with the state set to the current date
UpdateSucceeds(u) ==
    /\ \/ ev'.op = "return"
       \/ ev'.op = "update" /\ ev'.phase = "hit"
    /\ Truthy(ev'.data)
    /\ ~PresentationRaises(u, ev'.data)

\* the count kept in scn: `base` is the bag of timers the step starts from
CountRetries(u, base) ==
    scn' = IF UpdateSucceeds(u) THEN 0
           ELSE scn + NumRetryTimers(timers', u) - NumRetryTimers(base, u)

\* self._attributes of the entity: assigned in the success branch only, from
\* the payload and the current date (its update_time is left out)
UnitAttributes(u) ==
    /\ _attributes' =
          IF UpdateSucceeds(u)
          THEN [code |-> ev'.data.code, result |-> ev'.data.result,
                update_date |-> _get_current_date(now)]
          ELSE _attributes
    /\ UNCHANGED <<_enabled_apis, _time_slots, _last_time_slot,
                   _last_update_time, _content_types, _current_index,
                   _scroll_interval, _unsub_timer>>

RetrySetupUpdate ==
    \E u \in sensors :
        /\ lifecycle[u] = "created"
        /\ Start(u, "setup", timers)
        /\ CountRetries(u, timers)
        /\ UnitAttributes(u)

RetryPoll ==
    \E tm \in Due("poll") :
        /\ Start(tm.unit, "poll",
                 BagAdd(BagRemove(timers, tm), PollTimer(tm.unit, tm.due)))
        /\ CountRetries(tm.unit, timers)
        /\ UnitAttributes(tm.unit)

RetryFireRetry ==
    \E tm \in Due("retry") :
        /\ Start(tm.unit, "retry", BagRemove(timers, tm))
        /\ CountRetries(tm.unit, BagRemove(timers, tm))
        /\ UnitAttributes(tm.unit)

RetryFireDaily ==
    \E tm \in Due("daily") :
        /\ Start(tm.unit, "daily", BagRemove(timers, tm))
        /\ CountRetries(tm.unit, timers)
        /\ UnitAttributes(tm.unit)

RetryFetchReturn ==
    \E task \in BagToSet(tasks) : \E resp \in Responses :
        /\ Return(task, resp)
        /\ CountRetries(task.unit, timers)
        /\ UnitAttributes(task.unit)

NextRetry ==
    \/ RetrySetupUpdate
    \/ AddedToHass
    \/ RetryPoll
    \/ RetryFireRetry
    \/ RetryFireDaily
    \/ RetryFetchReturn
    \/ Tick

SpecRetry == InitRetry /\ [][NextRetry]_vars

\* C32: for a unit with the retry branch, under any interleaving of polls,
\* daily firings and retry callbacks, the retry counter stays within 0..2
\* in every reachable state and at most 2 retry timers have been registered
\* since the unit's last successful update.
C32_RetryCounterBound ==
    \A u \in sensors :
        /\ 0 <= _retry_count[u]
        /\ _retry_count[u] <= 2
        /\ scn <= 2

\* two updates whose fetches overlapped have both failed: the counter is 2
\* and both retries are pending
C32_Witness ==
    \E u \in sensors :
        /\ _retry_count[u] = 2
        /\ scn = 2
        /\ NumRetryTimers(timers, u) = 2
        /\ now > DAY

----------------------------------------------------------------------------
(* The retry budget *)

\* the step starts an update of u (its fetch is issued)
TriggerStarts(u) ==
    ev'.op = "update" /\ ev'.phase = "fetch" /\ ev'.unit = u

\* the step ends an update of u whose fetch failed, the two retries used up
FailsExhausted(u) ==
    /\ ev'.op = "return"
    /\ ev'.unit = u
    /\ ev'.data = None
    /\ _retry_count[u] = _max_retries

\* C33: the retry counter of a unit is set back only by a successful
\* update, never by a new trigger (poll or daily timer); once the unit has
\* used its 2 retries, a trigger whose fetch fails makes one attempt,
\* registers no retry and leaves the unit unavailable.
C33_BudgetRenewedOnlyBySuccess ==
    [][\A u \in sensors :
          /\ _retry_count'[u] < _retry_count[u] =>
                UpdateSucceeds(u) /\ _retry_count'[u] = 0
          /\ TriggerStarts(u) =>
                /\ _retry_count'[u] = _retry_count[u]
                /\ BagCardinality(tasks') = BagCardinality(tasks) + 1
          /\ FailsExhausted(u) =>
                /\ BagCardinality(tasks') = BagCardinality(tasks) - 1
                /\ NumRetryTimers(timers', u) = NumRetryTimers(timers, u)
                /\ _retry_count'[u] = _max_retries
                /\ ~_available'[u]
                /\ _state'[u] = StateApiFailed]_vars

\* a poll or a daily firing that came after the two retries were used up
\* has failed
C33_Witness ==
    /\ ev.op = "return"
    /\ ev.trigger \in {"poll", "daily"}
    /\ ev.data = None
    /\ ev.rc_before = _max_retries
    /\ scn = 2
    /\ ~_available[ev.unit]
    /\ NumRetryTimers(timers, ev.unit) = 0

----------------------------------------------------------------------------
(* The stored timestamp under overlapping refreshes: an entity whose first  *)
(* update ends at 00:01:01 is polled at 00:01:01 of the next day, one       *)
(* second after its daily timer, whose fetch may still be under way.        *)

\* C34: for every key, under any interleaving of overlapping refreshes
\* from different triggers, the stored timestamp never decreases from one
\* state to the next.
C34_TimestampMonotonic ==
    [][\A k \in DOMAIN _cache_timestamp :
          /\ k \in DOMAIN _cache_timestamp'
          /\ _cache_timestamp'[k] >= _cache_timestamp[k]]_vars

----------------------------------------------------------------------------
(* The slot resolver as a function of the minute of day *)

\* a minute lies in a slot: within start..end, or for a slot across
\* midnight at or after its start or at or before its end
LiesIn(m, s) ==
    \/ s.start <= s.end /\ s.start <= m /\ m <= s.end
    \/ s.start > s.end /\ (m >= s.start \/ m <= s.end)

\* the pair resolved for minute m of the day
ResolvedAt(m) == _get_current_time_slot(_time_slots, m * 60)

\* C35: the resolver returns the id and the display name of a slot exactly
\* when the minute lies in it (start <= m <= end, or m >= start or m <= end
\* for a slot across midnight), the pair ("default", "默认时段") exactly when
\* the minute lies in no slot, and the same pair for any two minutes of one
\* slot (each minute resolves to what the two ends of its slot resolve to).
C35_ResolveBySlot ==
    ev.op = "resolve" =>
        LET m == ev.minute
            pair == [api_type |-> ev.api_type, name |-> ev.name]
        IN  /\ \A i \in 1..Len(_time_slots) :
                  LET s == _time_slots[i] IN
                  /\ pair = [api_type |-> s.api_type, name |-> s.name]
                        <=> LiesIn(m, s)
                  /\ LiesIn(m, s) =>
                        /\ ResolvedAt(s.start) = pair
                        /\ ResolvedAt(s.end) = pair
            /\ pair = [api_type |-> "default", name |-> SlotName("default")]
                  <=> \A i \in 1..Len(_time_slots) : ~LiesIn(m, _time_slots[i])

\* the last minute of the slot across midnight, resolved with optional
\* types enabled
C35_Witness ==
    /\ ev.op = "resolve"
    /\ ev.minute = 4 * 60 + 59
    /\ ev.api_type = "evening"
    /\ Len(_time_slots) > 2

----------------------------------------------------------------------------
(* The retry branch and what the entity shows *)

\* the step ends an update of u whose fetch failed, with retries left
RetryPendingStep(u) ==
    /\ HasRetryBranch(u)
    /\ ev'.op = "return"
    /\ ev'.unit = u
    /\ ev'.data = None
    /\ _retry_count[u] < _max_retries

\* what the entity shows when it was never updated
InitialDisplay(st, av, attrs) ==
    st = StateWaiting /\ av /\ attrs = EmptyDict

\* C36: a failed update of a unit with the retry branch that still has
\* retries left changes the retry counter and the pending timers only:
\* state, attributes and availability are as before the update, so that a
\* unit showing its initial state as available still does so.
C36_RetryPendingKeepsDisplay ==
    [][\A u \in sensors :
          RetryPendingStep(u) =>
              /\ _state'[u] = _state[u]
              /\ _available'[u] = _available[u]
              /\ _attributes' = _attributes
              /\ _retry_count'[u] = _retry_count[u] + 1
              /\ NumRetryTimers(timers', u) = NumRetryTimers(timers, u) + 1
              /\ InitialDisplay(_state[u], _available[u], _attributes) =>
                    InitialDisplay(_state'[u], _available'[u], _attributes')
              /\ UNCHANGED <<_data_cache, _cache_timestamp>>]_vars

\* both retries of a unit that never succeeded are under way or pending and
\* the unit still shows its initial state, available
C36_Witness ==
    /\ ev.op = "return"
    /\ ev.data = None
    /\ ev.rc_before = 1
    /\ _retry_count[ev.unit] = 2
    /\ InitialDisplay(_state[ev.unit], _available[ev.unit], _attributes)
    /\ NumRetryTimers(timers, ev.unit) >= 1

----------------------------------------------------------------------------
(* The time-slot entity before and at its first poll with a ready cache *)

\* the poll publishes the placeholder of a cache that is not ready
WaitingPublished ==
    /\ _attributes' = SlotDefaultAttributes(now, "waiting for data")
    /\ _last_time_slot' = _last_time_slot

\* the poll publishes the presented content of the type that owns the
\* current minute, with the entity available
OwnerPublished ==
    /\ ev'.recomputed
    /\ ResolvedNow \in DOMAIN _data_cache
    /\ _last_time_slot' = ResolvedNow
    /\ _available'["time_slot"]
    /\ _attributes'.content1 =
          _get_time_slot_content(ResolvedNow, _data_cache[ResolvedNow]).content1

\* C37: while an enabled type is missing from the cache a poll of the
\* time-slot unit publishes the waiting placeholder and records no last
\* resolved slot; the first poll made with every enabled type cached
\* recomputes and publishes the presented content of the type that owns
\* the current minute, with the unit available.
C37_CatchesUpOnceCached ==
    [][ev'.op = "slot_update" =>
          /\ ~SlotCacheReady => WaitingPublished
          /\ (SlotCacheReady /\ _last_time_slot = NoSlot) => OwnerPublished]_vars

----------------------------------------------------------------------------
(* The aggregate entities next to the per-type entities they read from:    *)
(* the entities of the configuration [morning, evening] and one of the two  *)
(* aggregate entities, through the first hour after the set-up at           *)
(* 07:59:00 (the first updates and the first retry; polls and daily timers  *)
(* do not come due).  The aggregate entity is polled, or its rotation       *)
(* interval fires, at any instant the clock stops at.                       *)

\* seconds after the set-up the run covers (the first retry comes due 1800 s
\* after a failed first update)
CompositeHorizon == 1900

CompositeUnits == {"morning", "evening"}

InitComposite ==
    /\ now = 28740
    /\ \E c \in {"time_slot", "scrolling"} : sensors = CompositeUnits \cup {c}
    /\ lifecycle = [u \in sensors |->
                       IF u \in ContentTypes THEN "created" ELSE "added"]
    /\ _data_cache = EmptyDict
    /\ _cache_timestamp = EmptyDict
    /\ _state = [u \in sensors |->
                    IF u \in ContentTypes THEN StateWaiting ELSE StateDate(now)]
    /\ _available = [u \in sensors |-> TRUE]
    /\ _retry_count = [u \in sensors |-> 0]
    /\ timers = EmptyBag
    /\ tasks = EmptyBag
    /\ ev = [op |-> "init"]
    /\ scn = << >>
    /\ _enabled_apis = MandatoryTypes
    /\ _time_slots = IF "time_slot" \in sensors
                     THEN _generate_time_slots(_enabled_apis) ELSE << >>
    /\ _last_time_slot = NoSlot
    /\ _last_update_time = NoTime
    /\ _attributes = EmptyDict
    /\ _content_types = IF "scrolling" \in sensors
                        THEN ScrollContentTypes(_enabled_apis) ELSE << >>
    /\ _current_index = 0
    /\ _scroll_interval = IF "scrolling" \in sensors THEN 1 ELSE 0
    /\ _unsub_timer = IF "scrolling" \in sensors
                      THEN [isNone |-> FALSE] ELSE None

\* the poll of the time-slot entity issuing a fetch of its own
CompositePollFetching ==
    /\ "time_slot" \in sensors
    /\ BagCardinality(tasks) < MaxTasks
    /\ SlotAsyncUpdate
    /\ tasks' = IF SlotCacheReady THEN tasks
                ELSE BagAdd(tasks, [unit |-> "morning", trigger |-> "poll",
                                    current_time |-> now])
    /\ UNCHANGED <<now, sensors, lifecycle, _data_cache, _cache_timestamp,
                   _retry_count, timers, scn, _enabled_apis,
                   _time_slots, _content_types, _current_index,
                   _scroll_interval, _unsub_timer>>

\* the platform polls the time-slot entity: TianTimeSlotContentSensor.async_update
CompositePoll ==
    /\ "time_slot" \in sensors
    /\ SlotAsyncUpdate
    /\ UNCHANGED <<now, sensors, lifecycle, _data_cache, _cache_timestamp,
                   _retry_count, timers, tasks, scn, _enabled_apis,
                   _time_slots, _content_types, _current_index,
                   _scroll_interval, _unsub_timer>>

\* the rotation interval fires: _update_scrolling_content
CompositeTick ==
    /\ "scrolling" \in sensors
    /\ _update_scrolling_content
    /\ UNCHANGED <<now, sensors, lifecycle, _data_cache, _cache_timestamp,
                   _retry_count, timers, tasks, scn, _enabled_apis,
                   _time_slots, _last_time_slot, _last_update_time,
                   _content_types, _scroll_interval, _unsub_timer>>

\* the clock advances within the hour
CompositeAdvance ==
    \E t \in Instants :
        /\ t <= 28740 + CompositeHorizon
        /\ Advance(t)
        /\ UNCHANGED <<scn, aggVars>>

NextComposite ==
    \/ SetupUpdate
    \/ AddedToHass
    \/ FireRetry
    \/ FetchReturn
    \/ CompositeAdvance
    \/ CompositePoll
    \/ CompositeTick

SpecComposite == InitComposite /\ [][NextComposite]_vars

\* a step that is a poll of the time-slot entity or a rotation tick
IsCompositeStep == ev'.op = "slot_update" \/ ev'.op = "scroll_tick"

\* C38: a poll of the time-slot unit or a tick of the rotation unit issues
\* no network fetch and leaves every cache entry (payload and timestamp)
\* and the retry counter of every per-type unit unchanged.
C38_CompositeReadOnly ==
    [][IsCompositeStep =>
          /\ tasks' = tasks
          /\ _data_cache' = _data_cache
          /\ _cache_timestamp' = _cache_timestamp
          /\ \A u \in CompositeUnits : _retry_count'[u] = _retry_count[u]]_vars

\* the time-slot entity is polled, or the rotation ticks, while evening is
\* cached, morning has a retry counted and the retry's fetch is under way
C38_Witness ==
    /\ ev.op = "slot_update" \/ ev.op = "scroll_tick"
    /\ _retry_count["morning"] = 1
    /\ tasks # EmptyBag
    /\ "evening" \in DOMAIN _data_cache

----------------------------------------------------------------------------
(* _format_line_breaks and _format_plain_breaks (the two aggregate classes  *)
(* hold the same pair), on texts taken as sequences of characters.         *)

\* the characters "。", "？" and "！"
FullStop == "full stop"

QuestionMark == "question mark"

ExclamationMark == "exclamation mark"

\* the characters of the texts of the model: the three sentence marks, two
\* letters and the newline
BreakChars == {FullStop, QuestionMark, ExclamationMark, "x", "r", "\n"}

\* the texts formatted: every text of at most MaxLen characters
BreakTexts == UNION {[1..n -> BreakChars] : n \in 0..MaxLen}

\* "<br>", four characters
BreakToken == <<"<", "b", "r", ">">>

\* str.replace(old, new): the occurrences of old, from the left and without
\* overlap, replaced by new
RECURSIVE Replace(_, _, _)
Replace(s, old, new) ==
    IF Len(s) < Len(old) THEN s
    ELSE IF SubSeq(s, 1, Len(old)) = old
         THEN new \o Replace(SubSeq(s, Len(old) + 1, Len(s)), old, new)
         ELSE <<Head(s)>> \o Replace(Tail(s), old, new)

\* str.rstrip(chars): the trailing characters that are in the set removed
RECURSIVE RStrip(_, _)
RStrip(s, chars) ==
    IF s = << >> THEN s
    ELSE IF s[Len(s)] \in chars THEN RStrip(SubSeq(s, 1, Len(s) - 1), chars)
         ELSE s

\* the set of the characters of a string
CharsOf(s) == {s[i] : i \in 1..Len(s)}

\* _format_line_breaks(text) for a text that is not None
_format_line_breaks(text) ==
    LET a == Replace(text, <<FullStop>>, <<FullStop>> \o BreakToken)
        b == Replace(a, <<QuestionMark>>, <<QuestionMark>> \o BreakToken)
        c == Replace(b, <<ExclamationMark>>, <<ExclamationMark>> \o BreakToken)
        d == Replace(c, BreakToken \o BreakToken, BreakToken)
    IN  RStrip(d, CharsOf(BreakToken))

\* _format_plain_breaks(text) for a text that is not None
_format_plain_breaks(text) ==
    LET a == Replace(text, <<FullStop>>, <<FullStop, "\n">>)
        b == Replace(a, <<QuestionMark>>, <<QuestionMark, "\n">>)
        c == Replace(b, <<ExclamationMark>>, <<ExclamationMark, "\n">>)
        d == Replace(c, <<"\n", "\n">>, <<"\n">>)
    IN  RStrip(d, CharsOf(<<"\n">>))

InitBreaks ==
    /\ NoSystem
    /\ \E text \in BreakTexts : ev = [op |-> "text", text |-> text]

\* a presenter formats the text both ways
FormatBreaks ==
    /\ ev.op = "text"
    /\ ev' = [op |-> "formatted", text |-> ev.text,
              html |-> _format_line_breaks(ev.text),
              plain |-> _format_plain_breaks(ev.text)]
    /\ UNCHANGED <<now, sensors, lifecycle, _data_cache, _cache_timestamp,
                   _state, _available, _retry_count, timers, tasks, scn,
                   aggVars>>

NextBreaks == FormatBreaks

SpecBreaks == InitBreaks /\ [][NextBreaks]_vars

\* the text with the break token after each sentence mark
RECURSIVE WithBreaks(_)
WithBreaks(s) ==
    IF s = << >> THEN s
    ELSE IF Head(s) \in {FullStop, QuestionMark, ExclamationMark}
         THEN <<Head(s)>> \o BreakToken \o WithBreaks(Tail(s))
         ELSE <<Head(s)>> \o WithBreaks(Tail(s))

\* a string without the break token it ends with, if it ends with one
TrailingBreakRemoved(s) ==
    IF Len(s) >= 4 /\ SubSeq(s, Len(s) - 3, Len(s)) = BreakToken
    THEN SubSeq(s, 1, Len(s) - 4)
    ELSE s

\* C39: for every text the markup rendering is the text with "<br>" after
\* each "。", "？" and "！", less a trailing "<br>" and no other character,
\* whatever the text ends with; the plain rendering is the markup
\* rendering with every "<br>" replaced by a newline.
C39_LineBreakRenderings ==
    ev.op = "formatted" =>
        /\ ev.html = TrailingBreakRemoved(WithBreaks(ev.text))
        /\ ev.plain = Replace(ev.html, BreakToken, <<"\n">>)

----------------------------------------------------------------------------
(* update_scroll_interval with a value out of range *)

\* the step is a call of update_scroll_interval with n < 1 or n > 60
IsInvalidIntervalCall ==
    /\ ev'.op = "interval"
    /\ (ev'.new_interval < 1 \/ ev'.new_interval > 60)

\* C40: update_scroll_interval(n) with n < 1 or n > 60 leaves the stored
\* interval, the registered rotation timer, the index and the published
\* attributes unchanged and fires no tick.
C40_InvalidIntervalRejected ==
    [][IsInvalidIntervalCall =>
          /\ _scroll_interval' = _scroll_interval
          /\ timers' = timers
          /\ _unsub_timer' = _unsub_timer
          /\ _current_index' = _current_index
          /\ _attributes' = _attributes
          /\ tasks' = tasks
          /\ _state' = _state
          /\ _available' = _available]_vars

\* an interval above the range has been refused after the rotation had
\* published content and moved its index
C40_Witness ==
    /\ ev.op = "interval"
    /\ ev.new_interval > 60
    /\ NumScrollTimers(timers) = 1
    /\ _current_index = 1
    /\ "content_type" \in DOMAIN _attributes

====
